---- MODULE Spec2Model ----
(***************************************************************************)
(* A model of aiosteampy's session authenticator (login.py) and of its     *)
(* paginated inventory resolver (public.py).                               *)
(*                                                                         *)
(* SpecLogin  : LoginMixin.login and the steps it awaits, logout and       *)
(*              refresh_access_token, one call at a time, the remote       *)
(*              service answering each request with any response of a      *)
(*              small menu; the cookie jar is that of the community domain.*)
(* SpecInv    : SteamPublicMixin.get_user_inventory, one pass at a time,   *)
(*              the remote service answering each page fetch with any page *)
(*              of a small menu.                                           *)
(* SpecTrade  : get_item_listings (public.py), get_trade_history,          *)
(*              get_trade_receipt and fetch_trade_offers (trade.py), one   *)
(*              call at a time, each response drawn from a small menu.     *)
(* SpecOffers : decline_trade_offer, cancel_trade_offer and               *)
(*              get_or_fetch_trade_offer (trade.py) over the storage hooks *)
(*              of TradeMixin, one call at a time.                         *)
(* SpecGuard  : concurrent callers of TimeAligner.get_steam_time_async     *)
(*              (utils_v2.py) beside one link_steam_guard (client_v2.py).  *)
(* SpecRelogin: two login() calls interleaved on one session.              *)
(***************************************************************************)
EXTENDS Integers, Sequences, FiniteSets, TLC

VARIABLES
    \* ---- session state (LoginMixin.__init__) ----
    is_logged,       \* self._is_logged
    refresh_token,   \* self._refresh_token, "None" when absent
    access_token,    \* self._access_token, "None" when absent
    password,        \* self._password, as the one byte its utf-8 encoding is
    \* ---- one login() call ----
    pc,              \* where login() stands
    attempts,        \* number of login() calls started so far
    pub_key,         \* local of _begin_auth_session_with_credentials
    ts,              \* local of _begin_auth_session_with_credentials
    session_data,    \* local of login()
    fin_data,        \* local of login()
    tasks,           \* the asyncio tasks of the transfers, in creation order
    outcome,         \* "none" | "running" | "returned" | "raised"
    error,           \* the exception class login() raised, "none" otherwise
    \* ---- what the remote service saw and said during the call ----
    sent,            \* the requests of the current call, in order
    key_resp,        \* the public-key response of the current login()
    poll_resp,       \* the poll response of the current login()
    fin_resp,        \* the finalization response of the current login()
    logged_before,   \* is_logged when the current call started
    tokens_before,   \* the stored tokens when the current call started
    guard_resp,      \* what the guard-code POST of the current login() met
    call,            \* the logout(), refresh_access_token() or
                     \* restore_from_cookies() called last
    jar,             \* session.cookie_jar, the cookies of the community domain
    \* ---- one get_user_inventory() call ----
    inv_pc,          \* "idle" | "loop" | "done"
    item_descrs_map, \* local: classid -> description kwargs
    items,           \* local: the EconItems built so far
    more_items,      \* local
    last_assetid,    \* local, "None" when absent
    predicate,       \* argument: "none" or the name of a predicate
    fetches,         \* start_assetid of every page request of the pass
    pages,           \* the continuation fields of every page served, in order
    first_descr,     \* classid -> the fragment that described it first in the pass
    origins,         \* per built item: its page and its asset fragment
    redescribed,     \* classids a later fragment described differently
    unresolved,      \* classids of the last page's assets never described
    late_joins,      \* classids joined on a page that did not describe them
    orphans,         \* classids of an unknown app first described on a page
                     \* none of whose assets has the classid
    inv_outcome,     \* "none" | "running" | "returned" | "raised"
    inv_error,       \* the exception class the pass raised
    result,          \* what get_user_inventory returned
    inv_failure,     \* what the failed page fetch of the pass met
    inv_exc,         \* msg and resp of the exception the pass raised
    inventory,       \* the get_inventory() call that awaited the pass
    \* ---- one call of the market or of the trades, the last one made ----
    t_op,            \* "none" | "listings" | "history" | "receipt" | "offers"
    tr_pc,           \* "idle" | "loop": where fetch_trade_offers stands
    t_resp,          \* the response the call parsed last
    call_descrs_map, \* local item_descrs_map of the call
    cached_before,   \* the keys the calls before this one cached
    t_outcome,       \* "none" | "running" | "returned" | "raised"
    t_error,         \* the exception class the call raised
    t_result,        \* what the call returned
    cursor,          \* params["cursor"] of fetch_trade_offers
    offer_sent_datas,     \* local of fetch_trade_offers
    offer_received_datas, \* local of fetch_trade_offers
    cursors,         \* the cursor of every GetTradeOffers request of the call
    tr_pages         \* every GetTradeOffers response of the call, in order

loginVars == <<is_logged, refresh_token, access_token, password, pc, attempts,
               pub_key, ts, session_data, fin_data, tasks, outcome, error,
               sent, key_resp, poll_resp, fin_resp, logged_before, tokens_before,
               guard_resp, call, jar>>

invVars == <<inv_pc, item_descrs_map, items, more_items, last_assetid,
             predicate, fetches, pages, first_descr, origins, redescribed,
             unresolved, late_joins, orphans,
             inv_outcome, inv_error, result, inv_failure, inv_exc, inventory>>

tradeVars == <<t_op, tr_pc, t_resp, call_descrs_map, cached_before, t_outcome,
               t_error, t_result, cursor, offer_sent_datas,
               offer_received_datas, cursors, tr_pages>>

VARIABLES
    \* ---- the trade offers of the client ----
    storage,         \* who provides the storage of the trade offers
    offer_store,     \* the stored offers, by offer id
    o_call           \* the call on a trade offer made last

VARIABLES
    \* ---- the time aligner (class attributes) and link_steam_guard ----
    aligned,         \* TimeAligner._aligned
    time_difference, \* TimeAligner._time_difference
    now,             \* the local clock, in seconds
    skew,            \* the server's clock minus the local one
    shared_secret,   \* self._shared_secret, "None" when absent
    time_call,       \* per caller of get_steam_time_async: where it stands
    link,            \* the link_steam_guard() call
    queries,         \* the QueryTime requests sent, in order
    offset_sets,     \* the assignments of _time_difference, in order
    \* ---- two login() calls on the same session ----
    att,             \* per attempt: where its login() stands
    re_log           \* what the polls stored and the finalizations sent, in order

offerVars == <<storage, offer_store, o_call>>

guardVars == <<aligned, time_difference, now, skew, shared_secret, time_call,
               link, queries, offset_sets>>

reVars == <<att, re_log>>

extVars == <<offerVars, guardVars, reVars>>

vars == <<loginVars, invVars, tradeVars, extVars>>

\* ------------------------------------------------------------------ bounds

\* login() calls in one behaviour
MaxLogins == 2

\* entries of transfer_info in a finalization response
MaxTransfers == 3

\* page requests of one inventory pass the model follows
MaxFetches == 3

\* ----------------------------------------------------------------- helpers

None == "None"

Has(rec, key) == key \in DOMAIN rec

\* int(s, 16) of a string of hex digits, given as the sequence of its digits
RECURSIVE HexVal(_)
HexVal(s) == IF s = <<>> THEN 0
             ELSE 16 * HexVal(SubSeq(s, 1, Len(s) - 1)) + s[Len(s)]

\* int(s) of a decimal string, given as the sequence of its digits
RECURSIVE DecVal(_)
DecVal(s) == IF s = <<>> THEN 0
             ELSE 10 * DecVal(SubSeq(s, 1, Len(s) - 1)) + s[Len(s)]

RECURSIVE ModExp(_, _, _)
ModExp(b, e, n) == IF e = 0 THEN 1 % n ELSE (b * ModExp(b, e - 1, n)) % n

\* rsa.encrypt(message, pub_key): the message is padded with random non-zero
\* bytes (pad) and raised to the public exponent modulo the modulus.
Encrypt(msg, pad, key) == ModExp(pad * 4 + msg, key.e, key.n)

\* b64encode(...).decode() of a one-byte string: two sextets and two "=" (64)
B64Encode(byte) == <<byte \div 4, (byte % 4) * 16, 64, 64>>

\* ----------------------------------------------- the remote service's menu

\* self._password, the constructor's argument
Passwords == {3}
Pads == {1, 2}

\* GetPasswordRSAPublicKey: rj["response"], well formed or with a key missing
GoodKeyResponses ==
    { [publickey_mod |-> <<2, 1>>, publickey_exp |-> <<3>>, timestamp |-> <<1, 7>>],
      [publickey_mod |-> <<3, 7>>, publickey_exp |-> <<0, 7>>, timestamp |-> <<0, 4, 2>>] }

BadKeyResponses ==
    { [publickey_exp |-> <<3>>, timestamp |-> <<1, 7>>],
      [publickey_mod |-> <<2, 1>>, timestamp |-> <<1, 7>>],
      [publickey_mod |-> <<2, 1>>, publickey_exp |-> <<3>>] }

KeyResponses == GoodKeyResponses \cup BadKeyResponses

NoKeyResp == [none |-> TRUE]

\* BeginAuthSessionViaCredentials: r.json()
SessionDatas ==
    { [response |-> [client_id |-> "c1", request_id |-> "q1", steamid |-> "s1"]] }

NoSessionData == [none |-> TRUE]

\* PollAuthSessionStatus: r.json()
PollResponses ==
    { [success |-> FALSE],
      [response |-> [had_remote_interaction |-> TRUE]],
      [response |-> [had_remote_interaction |-> TRUE,
                     refresh_token |-> "r1", access_token |-> "a1"]],
      [response |-> [had_remote_interaction |-> FALSE,
                     refresh_token |-> "r1", access_token |-> "a1"]],
      [response |-> [had_remote_interaction |-> FALSE,
                     refresh_token |-> "r2", access_token |-> "a2"]],
      [response |-> [had_remote_interaction |-> FALSE, refresh_token |-> "r2"]],
      [response |-> [refresh_token |-> "r1", access_token |-> "a1"]] }

NoPollResp == [none |-> TRUE]

\* jwt/finalizelogin: transfer_info of n entries
TransferInfo(n) ==
    [i \in 1..n |-> [url |-> i, params |-> [nonce |-> i, auth |-> i]]]

\* jwt/finalizelogin: r.json()
FinalizeResponses ==
    { [error |-> "e"],
      [success |-> FALSE],
      [steamID |-> "s1", transfer_info |-> <<>>],
      [transfer_info |-> TransferInfo(1)] }
    \cup { [steamID |-> "s1", transfer_info |-> TransferInfo(n)] : n \in 1..MaxTransfers }

NoFinData == [none |-> TRUE]

\* what a transfer response carries under the name steamLoginSecure
Cookies == {"absent", "empty", "set"}

\* the entry of transfer_info whose url is on STEAM_URL.COMMUNITY
CommunityUrl == 1

\* a cookie value is given as its parts between the separators %7C%7C, the
\* empty string being its one empty part; no parts stand for no cookie
NoCookie == <<>>

\* the value of the steamLoginSecure cookie of a transfer response
CookieValue(cookie) ==
    IF cookie = "set" THEN <<"s1", "t1">>
    ELSE IF cookie = "empty" THEN <<"">>
    ELSE NoCookie

\* what a response of the community domain sets as sessionid
SessionIdCookies == { NoCookie, <<"sid">> }

\* the cookies of the community domain before any response has set one
EmptyJar == [sessionid |-> NoCookie, steamLoginSecure |-> NoCookie]

\* what the redirect chain of jwt/refresh sets as steamLoginSecure on the
\* community domain: nothing, a fresh value, or a value without separator
RefreshCookies == { NoCookie, <<"s1", "t2">>, <<"junk">> }

\* ------------------------------------------------------------------- Init

NoKey == [n |-> 0, e |-> 0]

\* no finalization response yet in the current login()
NoFinResp == [none |-> TRUE]

\* no logout() or refresh_access_token() since the last login()
NoCall == [op |-> "none", outcome |-> "none", error |-> "none", returned |-> None]

LoginInit ==
    /\ is_logged = FALSE
    /\ refresh_token = None
    /\ access_token = None
    /\ password \in Passwords
    /\ pc = "idle"
    /\ attempts = 0
    /\ pub_key = NoKey
    /\ ts = -1
    /\ session_data = NoSessionData
    /\ fin_data = NoFinData
    /\ tasks = <<>>
    /\ outcome = "none"
    /\ error = "none"
    /\ sent = <<>>
    /\ key_resp = NoKeyResp
    /\ poll_resp = NoPollResp
    /\ fin_resp = NoFinResp
    /\ logged_before = FALSE
    /\ tokens_before = <<None, None>>
    /\ guard_resp = "none"
    /\ call = NoCall
    /\ jar = EmptyJar

\* ------------------------------------------------------------ login steps

Request(kind, data) == [kind |-> kind, data |-> data]

\* an exception leaves login(): its locals are gone, the session fields stay
Raise(kind) ==
    /\ pc' = "idle"
    /\ outcome' = "raised"
    /\ error' = kind
    /\ pub_key' = NoKey
    /\ ts' = -1
    /\ session_data' = NoSessionData
    /\ fin_data' = NoFinData

\* aiohttp's cookie jar after a response of the community domain: a cookie
\* the response sets replaces the stored one, an absent one leaves it
StoreCookie(j, name, value) ==
    IF value = NoCookie THEN j ELSE [j EXCEPT ![name] = value]

\* login(): the call starts, with the optional GET of the community page
LoginStart ==
    /\ pc = "idle"
    /\ attempts < MaxLogins
    /\ \E init_session \in BOOLEAN :
          IF init_session
          THEN /\ sent' = <<Request("init", [url |-> "community"])>>
               /\ \E sid \in SessionIdCookies : jar' = StoreCookie(jar, "sessionid", sid)
          ELSE /\ sent' = <<>>
               /\ UNCHANGED jar
    /\ call' = NoCall
    /\ tokens_before' = <<refresh_token, access_token>>
    /\ guard_resp' = "none"
    /\ attempts' = attempts + 1
    /\ pc' = "rsa"
    /\ outcome' = "running"
    /\ error' = "none"
    /\ tasks' = <<>>
    /\ key_resp' = NoKeyResp
    /\ poll_resp' = NoPollResp
    /\ fin_resp' = NoFinResp
    /\ logged_before' = is_logged
    /\ UNCHANGED <<is_logged, refresh_token, access_token, password, pub_key,
                   ts, session_data, fin_data>>
    /\ UNCHANGED <<invVars, tradeVars, extVars>>

\* _get_rsa_key: the three fields of rj["response"], parsed
KeyWellFormed(rj) ==
    Has(rj, "publickey_mod") /\ Has(rj, "publickey_exp") /\ Has(rj, "timestamp")

RsaKeyOf(rj) == [n |-> HexVal(rj.publickey_mod), e |-> HexVal(rj.publickey_exp)]

RsaTimestampOf(rj) == DecVal(rj.timestamp)

\* the mutant of GetRsaKey: a field the response lacks is read as zero
GetRsaKey_Lenient ==
    /\ pc = "rsa"
    /\ \E rj \in KeyResponses :
          /\ key_resp' = rj
          /\ sent' = Append(sent, Request("rsa_key", [account_name |-> "user"]))
          /\ pub_key' = [n |-> IF Has(rj, "publickey_mod")
                               THEN HexVal(rj.publickey_mod) ELSE 1,
                         e |-> IF Has(rj, "publickey_exp")
                               THEN HexVal(rj.publickey_exp) ELSE 0]
          /\ ts' = IF Has(rj, "timestamp") THEN DecVal(rj.timestamp) ELSE 0
          /\ pc' = "begin"
          /\ UNCHANGED <<outcome, error, session_data, fin_data>>
    /\ UNCHANGED <<is_logged, refresh_token, access_token, password, attempts,
                   tasks, poll_resp, fin_resp, logged_before>>
    /\ UNCHANGED <<tokens_before, guard_resp, call, jar>>
    /\ UNCHANGED <<invVars, tradeVars, extVars>>

GetRsaKey ==
    /\ pc = "rsa"
    /\ \E rj \in KeyResponses :
          /\ key_resp' = rj
          /\ sent' = Append(sent, Request("rsa_key", [account_name |-> "user"]))
          /\ IF KeyWellFormed(rj)
             THEN /\ pub_key' = RsaKeyOf(rj)
                  /\ ts' = RsaTimestampOf(rj)
                  /\ pc' = "begin"
                  /\ UNCHANGED <<outcome, error, session_data, fin_data>>
             ELSE Raise("ApiError")
    /\ UNCHANGED <<is_logged, refresh_token, access_token, password, attempts,
                   tasks, poll_resp, fin_resp, logged_before>>
    /\ UNCHANGED <<tokens_before, guard_resp, call, jar>>
    /\ UNCHANGED <<invVars, tradeVars, extVars>>

\* the mutant of CredentialData: the password goes out encoded, not encrypted
CredentialData_Plain(pw, pad, key, stamp) ==
    [account_name |-> "user",
     encrypted_password |-> B64Encode(pw),
     encryption_timestamp |-> stamp]

\* _begin_auth_session_with_credentials: the data of the POST
CredentialData(pw, pad, key, stamp) ==
    [account_name |-> "user",
     encrypted_password |-> B64Encode(Encrypt(pw, pad, key)),
     encryption_timestamp |-> stamp]

BeginAuth ==
    /\ pc = "begin"
    /\ \E pad \in Pads :
          sent' = Append(sent, Request("begin_auth",
                                       CredentialData(password, pad, pub_key, ts)))
    /\ \E sd \in SessionDatas : session_data' = sd
    /\ pub_key' = NoKey
    /\ ts' = -1
    /\ pc' = "guard"
    /\ UNCHANGED <<is_logged, refresh_token, access_token, password, attempts,
                   fin_data, tasks, outcome, error, key_resp, poll_resp, fin_resp,
                   logged_before>>
    /\ UNCHANGED <<tokens_before, guard_resp, call, jar>>
    /\ UNCHANGED <<invVars, tradeVars, extVars>>

\* the mutant of GuardRaises: a rejected submission is passed over
GuardRaises_Ignored(accepted) == "none"

\* lines 209-216: the ClientResponseError of a rejected POST becomes ApiError
GuardRaises(accepted) == IF accepted THEN "none" ELSE "ApiError"

\* _update_auth_session_with_steam_guard_code: one POST; a ClientResponseError
\* becomes ApiError
UpdateGuardCode ==
    /\ pc = "guard"
    /\ sent' = Append(sent, Request("guard",
                  [client_id |-> session_data.response.client_id,
                   steamid |-> session_data.response.steamid,
                   code_type |-> 3]))
    /\ \E accepted \in BOOLEAN :
          /\ guard_resp' = IF accepted THEN "accepted" ELSE "rejected"
          /\ IF GuardRaises(accepted) = "none"
             THEN /\ pc' = "poll"
                  /\ UNCHANGED <<outcome, error, pub_key, ts, session_data, fin_data>>
             ELSE Raise(GuardRaises(accepted))
    /\ UNCHANGED <<is_logged, refresh_token, access_token, password, attempts,
                   tasks, key_resp, poll_resp, fin_resp, logged_before>>
    /\ UNCHANGED <<tokens_before, call, jar>>
    /\ UNCHANGED <<invVars, tradeVars, extVars>>

\* the mutant of PollRaises: a response that carries tokens is taken as issued
PollRaises_TokensFirst(rj) ==
    IF ~Has(rj, "response") THEN "ApiError"
    ELSE IF Has(rj.response, "refresh_token") /\ Has(rj.response, "access_token")
    THEN "none"
    ELSE IF ~Has(rj.response, "had_remote_interaction") THEN "KeyError"
    ELSE IF rj.response.had_remote_interaction THEN "ApiError"
    ELSE "none"

\* _poll_auth_session_status: what line 229-230 raises for the response rj
PollRaises(rj) ==
    IF ~Has(rj, "response") THEN "ApiError"
    ELSE IF ~Has(rj.response, "had_remote_interaction") THEN "KeyError"
    ELSE IF rj.response.had_remote_interaction THEN "ApiError"
    ELSE "none"

PollStatus ==
    /\ pc = "poll"
    /\ sent' = Append(sent, Request("poll",
                  [client_id |-> session_data.response.client_id,
                   request_id |-> session_data.response.request_id]))
    /\ \E rj \in PollResponses :
          /\ poll_resp' = rj
          /\ UNCHANGED fin_resp
          /\ IF PollRaises(rj) # "none"
             THEN /\ Raise(PollRaises(rj))
                  /\ UNCHANGED <<refresh_token, access_token>>
             ELSE IF ~Has(rj.response, "refresh_token")
             THEN /\ Raise("KeyError")
                  /\ UNCHANGED <<refresh_token, access_token>>
             ELSE IF ~Has(rj.response, "access_token")
             THEN /\ refresh_token' = rj.response.refresh_token
                  /\ Raise("KeyError")
                  /\ UNCHANGED access_token
             ELSE /\ refresh_token' = rj.response.refresh_token
                  /\ access_token' = rj.response.access_token
                  /\ pc' = "finalize"
                  /\ UNCHANGED <<outcome, error, pub_key, ts, session_data, fin_data>>
    /\ UNCHANGED <<is_logged, password, attempts, tasks, key_resp, logged_before>>
    /\ UNCHANGED <<tokens_before, guard_resp, call, jar>>
    /\ UNCHANGED <<invVars, tradeVars, extVars>>

\* the mutant of FinalizeRaises: an empty transfer_info is accepted
FinalizeRaises_EmptyAccepted(rj) ==
    IF Has(rj, "error") THEN "LoginError"
    ELSE IF ~Has(rj, "transfer_info") THEN "LoginError"
    ELSE "none"

\* _finalize_login: what lines 250-253 raise for the response rj
FinalizeRaises(rj) ==
    IF Has(rj, "error") THEN "LoginError"
    ELSE IF ~Has(rj, "transfer_info") \/ rj.transfer_info = <<>> THEN "LoginError"
    ELSE "none"

NewTask == [state |-> "created", cookie |-> "pending", exc |-> "none"]

\* _finalize_login, then lines 121-124 of login(): one task per entry of
\* transfer_info is created before login() awaits anything
FinalizeLogin ==
    /\ pc = "finalize"
    /\ sent' = Append(sent, Request("finalize", [nonce |-> refresh_token]))
    /\ \E rj \in FinalizeResponses :
          /\ fin_resp' = rj
          /\ IF FinalizeRaises(rj) # "none"
             THEN /\ Raise(FinalizeRaises(rj))
                  /\ UNCHANGED tasks
             ELSE IF ~Has(rj, "steamID")
             THEN /\ Raise("KeyError")
                  /\ UNCHANGED tasks
             ELSE /\ fin_data' = rj
                  /\ tasks' = [i \in 1..Len(rj.transfer_info) |-> NewTask]
                  /\ pc' = "wait"
                  /\ UNCHANGED <<outcome, error, pub_key, ts, session_data>>
    /\ UNCHANGED <<is_logged, refresh_token, access_token, password, attempts,
                   key_resp, poll_resp, logged_before>>
    /\ UNCHANGED <<tokens_before, guard_resp, call, jar>>
    /\ UNCHANGED <<invVars, tradeVars, extVars>>

\* the log with one more transfer request: the transfers run concurrently
\* and are logged in the order of their tasks, after the requests before them
RECURSIVE LogTransfer(_, _)
LogTransfer(log, req) ==
    IF log # <<>> /\ log[Len(log)].kind = "transfer"
                 /\ log[Len(log)].data.url > req.data.url
    THEN Append(LogTransfer(SubSeq(log, 1, Len(log) - 1), req), log[Len(log)])
    ELSE Append(log, req)

\* the mutant of TransferData: every transfer goes to the community's URL
TransferData_ToFirst(data, steam_id) ==
    [url |-> CommunityUrl, params |-> data.params, steamID |-> steam_id]

\* _perform_transfer, line 140: the URL and the form of the POST; steam_id is
\* the steamID of the finalization, a non-empty string
TransferData(data, steam_id) ==
    [url |-> data.url, params |-> data.params, steamID |-> steam_id]

\* _perform_transfer, up to its await: the POST of task i goes out
TransferSend(i) ==
    /\ pc = "wait"
    /\ i \in DOMAIN tasks
    /\ tasks[i].state = "created"
    /\ tasks' = [tasks EXCEPT ![i].state = "sent"]
    /\ sent' = LogTransfer(sent, Request("transfer",
                  TransferData(fin_data.transfer_info[i], fin_data.steamID)))
    /\ UNCHANGED <<is_logged, refresh_token, access_token, password, pc,
                   attempts, pub_key, ts, session_data, fin_data, outcome,
                   error, key_resp, poll_resp, fin_resp, logged_before>>
    /\ UNCHANGED <<tokens_before, guard_resp, call, jar>>
    /\ UNCHANGED <<invVars, tradeVars, extVars>>

\* _perform_transfer, lines 143-146: r.cookies.get("steamLoginSecure") is None
\* for an absent cookie and a (truthy) Morsel for any cookie that was set
TransferRaises(cookie) == IF cookie = "absent" THEN "ApiError" ELSE "none"

\* the mutant of TransferSettle: a failing transfer cancels its siblings
TransferSettle_Cancel(i, cookie) ==
    [j \in DOMAIN tasks |->
        IF j = i
        THEN [state |-> "done", cookie |-> cookie, exc |-> TransferRaises(cookie)]
        ELSE IF TransferRaises(cookie) # "none" /\ tasks[j].state # "done"
        THEN [tasks[j] EXCEPT !.state = "cancelled"]
        ELSE tasks[j]]

\* the tasks once task i got its response: only task i changes
TransferSettle(i, cookie) ==
    [tasks EXCEPT ![i] =
        [state |-> "done", cookie |-> cookie, exc |-> TransferRaises(cookie)]]

TransferRespond(i) ==
    /\ pc = "wait"
    /\ i \in DOMAIN tasks
    /\ tasks[i].state = "sent"
    /\ \E cookie \in Cookies :
          /\ tasks' = TransferSettle(i, cookie)
          /\ IF fin_data.transfer_info[i].url = CommunityUrl
             THEN \E sid \in SessionIdCookies :
                     jar' = StoreCookie(StoreCookie(jar, "steamLoginSecure",
                                                    CookieValue(cookie)),
                                        "sessionid", sid)
             ELSE UNCHANGED jar
    /\ UNCHANGED <<is_logged, refresh_token, access_token, password, pc,
                   attempts, pub_key, ts, session_data, fin_data, outcome,
                   error, sent, key_resp, poll_resp, fin_resp, logged_before>>
    /\ UNCHANGED <<tokens_before, guard_resp, call>>
    /\ UNCHANGED <<invVars, tradeVars, extVars>>

\* the mutant of AllCompleted: asyncio.wait(..., return_when=FIRST_COMPLETED)
AllCompleted_First(ts_) ==
    \E i \in DOMAIN ts_ : ts_[i].state \in {"done", "cancelled"}

\* asyncio.wait(transfers, return_when=ALL_COMPLETED): every task is done
\* (finished, raised or cancelled); the tasks' exceptions stay in the tasks
AllCompleted(ts_) ==
    \A i \in DOMAIN ts_ : ts_[i].state \in {"done", "cancelled"}

\* the mutant of RestoreReturns: restore_from_cookies returns True always
RestoreReturns_True(alive) == "True"

\* helpers.py, lines 52-56: the value restore_from_cookies returns
RestoreReturns(alive) == IF alive THEN "True" ELSE "False"

\* helpers.py, lines 53-54: the login() that restore_from_cookies awaited has
\* returned, restore_from_cookies returns; any other call is as it was
AfterLogin(c) ==
    IF c.op = "restore" /\ c.outcome = "login"
    THEN [c EXCEPT !.outcome = "returned", !.returned = RestoreReturns(FALSE)]
    ELSE c

\* lines 129-130 of login(): the wait returns, is_logged is set, login returns
WaitReturn ==
    /\ pc = "wait"
    /\ AllCompleted(tasks)
    /\ is_logged' = TRUE
    /\ pc' = "idle"
    /\ outcome' = "returned"
    /\ fin_data' = NoFinData
    /\ session_data' = NoSessionData
    /\ UNCHANGED <<refresh_token, access_token, password, attempts, pub_key,
                   ts, tasks, error, sent, key_resp, poll_resp, fin_resp, logged_before>>
    /\ call' = AfterLogin(call)
    /\ UNCHANGED <<tokens_before, guard_resp, jar>>
    /\ UNCHANGED <<invVars, tradeVars, extVars>>

\* ------------------------------------------- logout and the access token

\* utils.get_cookie_value_from_session: the value of the named cookie of the
\* community domain, nothing when the jar has none
GetCookieValueFromSession(j, name) == j[name]

\* the session_id property, line 58
SessionId(j) == GetCookieValueFromSession(j, "sessionid")

\* a call other than login() starts: what was kept of the last login() call
\* is dropped, the session fields are noted
StartCall ==
    /\ outcome' = "none"
    /\ error' = "none"
    /\ tasks' = <<>>
    /\ key_resp' = NoKeyResp
    /\ poll_resp' = NoPollResp
    /\ fin_resp' = NoFinResp
    /\ guard_resp' = "none"
    /\ logged_before' = is_logged
    /\ tokens_before' = <<refresh_token, access_token>>

\* the mutant of AfterLogout: logout forgets the tokens too
AfterLogout_Cleared(rt, at) == [is_logged |-> FALSE, refresh_token |-> None,
                               access_token |-> None]

\* line 275: the session fields once the POST of logout() has returned
AfterLogout(rt, at) == [is_logged |-> FALSE, refresh_token |-> rt,
                       access_token |-> at]

\* logout(), lines 270-275: one POST, which may fail or may have the
\* community domain drop its steamLoginSecure cookie, then the flag
Logout ==
    /\ pc = "idle"
    /\ StartCall
    /\ sent' = <<Request("logout", [sessionid |-> SessionId(jar)])>>
    /\ \E resp \in {"error", "plain", "expires cookie"} :
          IF resp = "error"
          THEN /\ call' = [op |-> "logout", outcome |-> "raised",
                           error |-> "ClientResponseError", returned |-> None]
               /\ UNCHANGED <<is_logged, refresh_token, access_token, jar>>
          ELSE /\ call' = [op |-> "logout", outcome |-> "returned",
                           error |-> "none", returned |-> None]
               /\ jar' = IF resp = "expires cookie"
                         THEN [jar EXCEPT !.steamLoginSecure = NoCookie] ELSE jar
               /\ is_logged' = AfterLogout(refresh_token, access_token).is_logged
               /\ refresh_token' = AfterLogout(refresh_token, access_token).refresh_token
               /\ access_token' = AfterLogout(refresh_token, access_token).access_token
    /\ UNCHANGED <<password, pc, attempts, pub_key, ts, session_data, fin_data>>
    /\ UNCHANGED <<invVars, tradeVars, extVars>>

\* get_access_token, line 290: split("%7C%7C")[1] of a value of one part
AccessTokenRaises(j) ==
    IF Len(GetCookieValueFromSession(j, "steamLoginSecure")) = 1
       /\ GetCookieValueFromSession(j, "steamLoginSecure") # <<"">>
    THEN "IndexError" ELSE "none"

\* get_access_token, lines 289-290: nothing for no cookie or an empty value,
\* else the second part of the value
GetAccessToken(j) ==
    IF GetCookieValueFromSession(j, "steamLoginSecure") \in {NoCookie, <<"">>}
    THEN None
    ELSE GetCookieValueFromSession(j, "steamLoginSecure")[2]

\* the mutant of RefreshReturn: the token is read before the request is made
RefreshReturn_Stale(before, after) ==
    IF AccessTokenRaises(before) # "none" THEN None ELSE GetAccessToken(before)

\* line 306: self.access_token, read once the request has returned
RefreshReturn(before, after) == GetAccessToken(after)

\* refresh_access_token(), lines 292-306: one GET that follows redirects, the
\* cookies of its responses stored, then the access_token property
RefreshAccessToken ==
    /\ pc = "idle"
    /\ StartCall
    /\ sent' = <<Request("refresh", [redir |-> "community"])>>
    /\ \E c \in RefreshCookies :
          /\ jar' = StoreCookie(jar, "steamLoginSecure", c)
          /\ call' = IF AccessTokenRaises(jar') # "none"
                     THEN [op |-> "refresh", outcome |-> "raised",
                           error |-> AccessTokenRaises(jar'), returned |-> None]
                     ELSE [op |-> "refresh", outcome |-> "returned",
                           error |-> "none", returned |-> RefreshReturn(jar, jar')]
    /\ UNCHANGED <<is_logged, refresh_token, access_token, password, pc,
                   attempts, pub_key, ts, session_data, fin_data>>
    /\ UNCHANGED <<invVars, tradeVars, extVars>>

\* the cookies handed to restore_from_cookies, as update_session_cookies puts
\* them in the jar
RestoredCookies ==
    { [sessionid |-> <<"sid">>, steamLoginSecure |-> <<"s1", "t1">>] }

\* what the GET of is_session_alive meets: a page with the username, a page
\* without it, a transport error
Probes == {"alive", "dead", "error"}

\* helpers.py, lines 50-56: restore_from_cookies up to its return, or up to
\* the first request of the login(init_session=False) it awaits
RestoreFromCookies ==
    /\ pc = "idle"
    /\ attempts < MaxLogins
    /\ error' = "none"
    /\ tasks' = <<>>
    /\ key_resp' = NoKeyResp
    /\ poll_resp' = NoPollResp
    /\ fin_resp' = NoFinResp
    /\ guard_resp' = "none"
    /\ logged_before' = is_logged
    /\ tokens_before' = <<refresh_token, access_token>>
    /\ sent' = <<Request("probe", [url |-> "community"])>>
    /\ \E cookies \in RestoredCookies :
          jar' = StoreCookie(StoreCookie(jar, "sessionid", cookies.sessionid),
                             "steamLoginSecure", cookies.steamLoginSecure)
    /\ \E probe \in Probes :
          /\ call' = [op |-> "restore",
                      outcome |-> IF probe = "alive" THEN "returned"
                                  ELSE IF probe = "dead" THEN "login" ELSE "raised",
                      error |-> IF probe = "error" THEN "ClientResponseError"
                                ELSE "none",
                      returned |-> IF probe = "alive" THEN RestoreReturns(TRUE)
                                   ELSE None,
                      probe |-> probe,
                      attempts |-> attempts]
          /\ IF probe = "dead"
             THEN /\ attempts' = attempts + 1
                  /\ pc' = "rsa"
                  /\ outcome' = "running"
             ELSE /\ outcome' = "none"
                  /\ UNCHANGED <<attempts, pc>>
    /\ UNCHANGED <<is_logged, refresh_token, access_token, password, pub_key,
                   ts, session_data, fin_data>>
    /\ UNCHANGED <<invVars, tradeVars, extVars>>

LoginNext ==
    \/ RestoreFromCookies
    \/ Logout
    \/ RefreshAccessToken
    \/ LoginStart
    \/ GetRsaKey
    \/ BeginAuth
    \/ UpdateGuardCode
    \/ PollStatus
    \/ FinalizeLogin
    \/ \E i \in 1..MaxTransfers : TransferSend(i)
    \/ \E i \in 1..MaxTransfers : TransferRespond(i)
    \/ WaitReturn

\* --------------------------------------------------- the inventory's menu

\* description fragments of a page; name stands for the display fields
D1 == [classid |-> <<1>>, instanceid |-> <<0>>, appid |-> 730, name |-> "a"]
D2 == [classid |-> <<1>>, instanceid |-> <<0>>, appid |-> 730, name |-> "b"]
D3 == [classid |-> <<1>>, instanceid |-> <<5>>, appid |-> 730, name |-> "c"]
D4 == [classid |-> <<2>>, instanceid |-> <<0>>, appid |-> 7, name |-> "d"]

DescLists == { <<>>, <<D1>>, <<D2>>, <<D4>>, <<D3, D1>> }

\* asset fragments of a page
A1 == [assetid |-> <<1, 1>>, classid |-> <<1>>, instanceid |-> <<0>>,
       appid |-> 730, contextid |-> <<2>>, amount |-> <<1>>]
A2 == [assetid |-> <<1, 2>>, classid |-> <<1>>, instanceid |-> <<5>>,
       appid |-> 730, contextid |-> <<2>>, amount |-> <<3>>]
A3 == [assetid |-> <<1, 3>>, classid |-> <<2>>, instanceid |-> <<0>>,
       appid |-> 7, contextid |-> <<1>>, amount |-> <<1>>]
A4 == [assetid |-> <<1, 4>>, classid |-> <<2>>, instanceid |-> <<0>>,
       appid |-> 7, contextid |-> <<6>>, amount |-> <<1>>]

AssetLists == { <<A2, A1>>, <<A3>>, <<A4>> }

\* the continuation fields of a page: more_items and last_assetid, each
\* present or not
Continuations ==
    { [success |-> 1],
      [success |-> 1, more_items |-> FALSE],
      [success |-> 1, more_items |-> TRUE],
      [success |-> 1, more_items |-> TRUE, last_assetid |-> "111"],
      [success |-> 1, more_items |-> TRUE, last_assetid |-> "222"] }

PageOf(c, descs, assets) ==
    [k \in DOMAIN c \cup {"descriptions", "assets"} |->
        IF k = "descriptions" THEN descs
        ELSE IF k = "assets" THEN assets
        ELSE c[k]]

\* r.json() of a page that has the success indicator
Pages == { PageOf(c, ds, as) : c \in Continuations, ds \in DescLists, as \in AssetLists }

\* what session.get does instead of serving a page: a transport error with
\* its HTTP status, or a body without the success indicator
FetchFailures == { [status |-> 403], [status |-> 500], [body |-> "no success"] }

Predicates == {"none", "class1"}

\* the caller's predicate, applied to an EconItem
Satisfies(pred, item) == IF pred = "class1" THEN item.class_id = 1 ELSE TRUE

\* ---------------------------------------------------- the item resolver

\* constants.Game: the app ids that are members of the enum, with their value
KnownGame(appid) == IF appid = 730 THEN <<730, 2>> ELSE <<>>

NoGame == <<>>

\* the mutant of FindGameForAsset: with no asset of the class, the app id of
\* the description and context 0
FindGameForAsset_Default(description_data, assets) ==
    IF KnownGame(description_data.appid) # <<>>
    THEN KnownGame(description_data.appid)
    ELSE LET same == SelectSeq(assets, LAMBDA a : a.classid = description_data.classid)
         IN  IF same = <<>> THEN <<description_data.appid, 0>>
             ELSE <<Head(same).appid, DecVal(Head(same).contextid)>>

\* _find_game_for_asset: Game(appid), else the first asset of the given list
\* with the description's classid, else nothing
RECURSIVE FindGameForAsset(_, _)
FindGameForAsset(description_data, assets) ==
    IF KnownGame(description_data.appid) # <<>>
    THEN KnownGame(description_data.appid)
    ELSE IF assets = <<>> THEN NoGame
    ELSE IF Head(assets).classid = description_data.classid
    THEN <<Head(assets).appid, DecVal(Head(assets).contextid)>>
    ELSE FindGameForAsset(description_data, Tail(assets))

\* _create_item_description_kwargs
CreateItemDescriptionKwargs(data, assets) ==
    [class_id |-> DecVal(data.classid),
     instance_id |-> DecVal(data.instanceid),
     game |-> FindGameForAsset(data, assets),
     name |-> data.name]

\* the mutant of CacheDescription: a later fragment replaces the cached one
CacheDescription_Overwrite(map, d_data, assets) ==
    [k \in DOMAIN map \cup {d_data.classid} |->
        IF k = d_data.classid THEN CreateItemDescriptionKwargs(d_data, assets)
        ELSE map[k]]

\* _parse_items, lines 114-116: one description fragment met
CacheDescription(map, d_data, assets) ==
    IF d_data.classid \in DOMAIN map THEN map
    ELSE [k \in DOMAIN map \cup {d_data.classid} |->
            IF k = d_data.classid THEN CreateItemDescriptionKwargs(d_data, assets)
            ELSE map[k]]

\* _parse_items, lines 113-116: the loop over data["descriptions"]
RECURSIVE UpdateDescrsMap(_, _, _)
UpdateDescrsMap(map, descs, assets) ==
    IF descs = <<>> THEN map
    ELSE UpdateDescrsMap(CacheDescription(map, Head(descs), assets), Tail(descs), assets)

\* the mutant of DescrsMapAfter: the cache does not outlive a page
DescrsMapAfter_Fresh(map, data) ==
    UpdateDescrsMap(<<>>, data.descriptions, data.assets)

\* line 76 with lines 113-116: the pass's cache after the page's fragments
DescrsMapAfter(map, data) ==
    UpdateDescrsMap(map, data.descriptions, data.assets)

\* _parse_items, lines 119-124: one EconItem
EconItem(asset_data, descr) ==
    [asset_id |-> DecVal(asset_data.assetid),
     amount |-> DecVal(asset_data.amount),
     class_id |-> descr.class_id,
     instance_id |-> descr.instance_id,
     game |-> descr.game,
     name |-> descr.name]

\* _parse_items, line 123: the lookup raises KeyError for an unknown classid
ParseRaises(map, assets) ==
    IF \E i \in DOMAIN assets : assets[i].classid \notin DOMAIN map
    THEN "KeyError" ELSE "none"

\* the mutant of BuildItems: the items come out in reverse asset order
BuildItems_Reversed(map, assets) ==
    [i \in DOMAIN assets |->
        EconItem(assets[Len(assets) + 1 - i], map[assets[Len(assets) + 1 - i].classid])]

\* _parse_items, lines 118-126: the list built from data["assets"]
BuildItems(map, assets) ==
    [i \in DOMAIN assets |-> EconItem(assets[i], map[assets[i].classid])]

\* ------------------------------------------------------ get_user_inventory

\* no fetch of the pass has failed
NoFailure == [none |-> TRUE]

\* the pass has raised nothing that has a msg and a resp
NoExc == [msg |-> "none", resp |-> [none |-> TRUE]]

\* get_inventory() has not handled the end of the pass
NoInventory == [outcome |-> "none", error |-> "none", exc |-> NoExc, result |-> <<>>]

InvInit ==
    /\ inv_pc = "idle"
    /\ item_descrs_map = <<>>
    /\ items = <<>>
    /\ more_items = TRUE
    /\ last_assetid = None
    /\ predicate = "none"
    /\ fetches = <<>>
    /\ pages = <<>>
    /\ first_descr = <<>>
    /\ origins = <<>>
    /\ redescribed = {}
    /\ unresolved = {}
    /\ late_joins = {}
    /\ orphans = {}
    /\ inv_outcome = "none"
    /\ inv_error = "none"
    /\ result = <<>>
    /\ inv_failure = NoFailure
    /\ inv_exc = NoExc
    /\ inventory = NoInventory

\* lines 60-68: the call starts with an empty cache and no cursor
InvStart ==
    /\ inv_pc \in {"idle", "done"}
    /\ \E p \in Predicates : predicate' = p
    /\ inv_pc' = "loop"
    /\ item_descrs_map' = <<>>
    /\ items' = <<>>
    /\ more_items' = TRUE
    /\ last_assetid' = None
    /\ fetches' = <<>>
    /\ pages' = <<>>
    /\ first_descr' = <<>>
    /\ origins' = <<>>
    /\ redescribed' = {}
    /\ unresolved' = {}
    /\ late_joins' = {}
    /\ orphans' = {}
    /\ inv_outcome' = "running"
    /\ inv_error' = "none"
    /\ result' = <<>>
    /\ inv_failure' = NoFailure
    /\ inv_exc' = NoExc
    /\ inventory' = NoInventory
    /\ UNCHANGED <<loginVars, tradeVars, extVars>>

\* the mutant of StartAssetid: the cursor is never threaded
StartAssetid_Dropped(last) == None

\* line 70: the cursor parameter of the next request, "None" when it has none
StartAssetid(last) == IF last # None THEN last ELSE None

\* _fetch_inventory, lines 86-93: the error raised for a failed fetch
FetchRaises(failure) ==
    IF Has(failure, "status")
    THEN (IF failure.status = 403 THEN "ApiError" ELSE "ClientResponseError")
    ELSE "ApiError"

PRIVATE_USER_EXC_MSG == "User inventory is private."

\* _fetch_inventory, lines 86-93: msg and resp of the error raised for a
\* failed fetch: ApiError(PRIVATE_USER_EXC_MSG, str(url)) on status 403, the
\* transport error itself on another status, ApiError(msg, rj) for a body
\* without the success indicator
FetchException(failure) ==
    IF Has(failure, "status")
    THEN (IF failure.status = 403
          THEN [msg |-> PRIVATE_USER_EXC_MSG, resp |-> [url |-> "inventory"]]
          ELSE [msg |-> "ClientResponseError", resp |-> failure])
    ELSE [msg |-> "Can't fetch inventory.", resp |-> failure]

\* data.get("more_items", False)
MoreItemsOf(data) == IF Has(data, "more_items") THEN data.more_items ELSE FALSE

\* data.get("last_assetid")
LastAssetidOf(data) == IF Has(data, "last_assetid") THEN data.last_assetid ELSE None

\* the mutant of Filtered: the filter stops at the first item that fails
RECURSIVE Filtered_Prefix(_, _)
Filtered_Prefix(pred, its) ==
    IF its = <<>> \/ ~Satisfies(pred, Head(its)) THEN <<>>
    ELSE <<Head(its)>> \o Filtered_Prefix(pred, Tail(its))

\* line 78
Filtered(pred, its) == SelectSeq(its, LAMBDA i : Satisfies(pred, i))

InvRaise(kind) ==
    /\ inv_pc' = "done"
    /\ inv_outcome' = "raised"
    /\ inv_error' = kind
    /\ result' = <<>>

\* the fragment that described each class first in the pass
RECURSIVE NoteFirst(_, _)
NoteFirst(fd, descs) ==
    IF descs = <<>> THEN fd
    ELSE NoteFirst(
           IF Head(descs).classid \in DOMAIN fd THEN fd
           ELSE [k \in DOMAIN fd \cup {Head(descs).classid} |->
                   IF k = Head(descs).classid THEN Head(descs) ELSE fd[k]],
           Tail(descs))

\* the classids some fragment of descs describes otherwise than fd does
Redescribed(fd, descs) ==
    { descs[j].classid : j \in { k \in DOMAIN descs : descs[k] # fd[descs[k].classid] } }

\* the classids of assets that no fragment of the pass has described
Unresolved(fd, assets) ==
    { assets[i].classid : i \in { k \in DOMAIN assets : assets[k].classid \notin DOMAIN fd } }

\* the continuation fields of a served page
ContinuationOf(data) == [k \in DOMAIN data \ {"descriptions", "assets"} |-> data[k]]

\* the (app id, context id) of the assets of the list that have the classid
GamesOfClass(assets, classid) ==
    { <<assets[k].appid, DecVal(assets[k].contextid)>> :
        k \in { j \in DOMAIN assets : assets[j].classid = classid } }

OriginsOf(data, page) ==
    [i \in DOMAIN data.assets |->
        [page |-> page, classid |-> data.assets[i].classid,
         instanceid |-> data.assets[i].instanceid,
         assetid |-> data.assets[i].assetid,
         page_games |-> GamesOfClass(data.assets, data.assets[i].classid)]]

\* the classids of the page's assets that the page itself does not describe
\* and an earlier page did
LateJoins(fd, data) ==
    { data.assets[i].classid : i \in { k \in DOMAIN data.assets :
        /\ data.assets[k].classid \in DOMAIN fd
        /\ \A j \in DOMAIN data.descriptions :
              data.descriptions[j].classid # data.assets[k].classid } }

\* the classids the page is the first to describe, with an app id that is no
\* known game, while none of the page's assets has the classid
Orphans(fd, data) ==
    { c \in DOMAIN NoteFirst(fd, data.descriptions) \ DOMAIN fd :
        /\ KnownGame(NoteFirst(fd, data.descriptions)[c].appid) = <<>>
        /\ \A k \in DOMAIN data.assets : data.assets[k].classid # c }

\* one turn of the loop of lines 69-76 on a failed fetch
FetchFails ==
    /\ inv_pc = "loop"
    /\ Len(fetches) < MaxFetches
    /\ fetches' = Append(fetches, StartAssetid(last_assetid))
    /\ \E f \in FetchFailures :
          /\ InvRaise(FetchRaises(f))
          /\ inv_failure' = f
          /\ inv_exc' = FetchException(f)
    /\ UNCHANGED <<item_descrs_map, items, more_items, last_assetid, predicate,
                   pages, first_descr, origins, redescribed, unresolved,
                   late_joins, orphans, inventory>>
    /\ UNCHANGED <<loginVars, tradeVars, extVars>>

\* one turn of the loop of lines 69-76 on a served page, and line 78 when the
\* loop ends with it
FetchPage ==
    /\ inv_pc = "loop"
    /\ Len(fetches) < MaxFetches
    /\ fetches' = Append(fetches, StartAssetid(last_assetid))
    /\ \E data \in Pages :
          LET more == MoreItemsOf(data)
              map == DescrsMapAfter(item_descrs_map, data)
          IN  /\ pages' = Append(pages, ContinuationOf(data))
              /\ more_items' = more
              /\ last_assetid' = IF more THEN LastAssetidOf(data) ELSE last_assetid
              /\ item_descrs_map' = map
              /\ first_descr' = NoteFirst(first_descr, data.descriptions)
              /\ redescribed' = redescribed \cup Redescribed(first_descr', data.descriptions)
              /\ unresolved' = Unresolved(first_descr', data.assets)
              /\ orphans' = orphans \cup Orphans(first_descr, data)
              /\ IF ParseRaises(map, data.assets) # "none"
                 THEN /\ InvRaise(ParseRaises(map, data.assets))
                      /\ UNCHANGED <<items, origins, late_joins>>
                 ELSE /\ items' = items \o BuildItems(map, data.assets)
                      /\ late_joins' = late_joins \cup LateJoins(first_descr, data)
                      /\ origins' = origins \o OriginsOf(data, Len(fetches) + 1)
                      /\ IF more
                         THEN UNCHANGED <<inv_pc, inv_outcome, inv_error, result>>
                         ELSE /\ inv_pc' = "done"
                              /\ inv_outcome' = "returned"
                              /\ result' = Filtered(predicate, items')
                              /\ UNCHANGED inv_error
    /\ UNCHANGED <<predicate, inv_failure, inv_exc, inventory>>
    /\ UNCHANGED <<loginVars, tradeVars, extVars>>

\* the mutant of GetInventoryRaises: every ApiError is taken for an expired
\* session
GetInventoryRaises_AnyApiError(kind, exc) ==
    IF kind = "ApiError" THEN "SessionExpired" ELSE kind

\* get_inventory, lines 268-271: the exception that leaves get_inventory when
\* the awaited get_user_inventory raised one
GetInventoryRaises(kind, exc) ==
    IF kind = "ApiError"
    THEN (IF exc.msg = PRIVATE_USER_EXC_MSG THEN "SessionExpired" ELSE "ApiError")
    ELSE kind

\* get_inventory, lines 266-273, once the get_user_inventory it awaits on the
\* client's own steam id has ended
GetInventoryReturn ==
    /\ inv_pc = "done"
    /\ inventory = NoInventory
    /\ inventory' =
          IF inv_outcome = "raised"
          THEN [outcome |-> "raised",
                error |-> GetInventoryRaises(inv_error, inv_exc),
                exc |-> IF GetInventoryRaises(inv_error, inv_exc) = inv_error
                        THEN inv_exc ELSE NoExc,
                result |-> <<>>]
          ELSE [outcome |-> "returned", error |-> "none", exc |-> NoExc,
                result |-> result]
    /\ UNCHANGED <<inv_pc, item_descrs_map, items, more_items, last_assetid,
                   predicate, fetches, pages, first_descr, origins, redescribed,
                   unresolved, late_joins, orphans, inv_outcome, inv_error, result,
                   inv_failure, inv_exc>>
    /\ UNCHANGED <<loginVars, tradeVars, extVars>>

InvNext ==
    \/ InvStart
    \/ FetchFails
    \/ FetchPage
    \/ GetInventoryReturn

\* ------------------------------------- the market's and the trades' menu

\* asset fragments of a listings response, flattened in the iteration order
\* of rj["assets"] (app id, then context id, then asset id)
L1 == [id |-> <<2, 1>>, classid |-> <<1>>, instanceid |-> <<0>>,
       appid |-> 730, contextid |-> <<2>>, name |-> "a"]
L2 == [id |-> <<2, 2>>, classid |-> <<1>>, instanceid |-> <<5>>,
       appid |-> 730, contextid |-> <<2>>, name |-> "c"]
L3 == [id |-> <<2, 3>>, classid |-> <<2>>, instanceid |-> <<0>>,
       appid |-> 7, contextid |-> <<1>>, name |-> "d"]

ListingAssetLists == { <<L1>>, <<L1, L2>>, <<L2, L1>>, <<L3>>, <<L1, L3>> }

\* rj["listinginfo"]: one listing for each asset, in the assets' order
ListingInfoOf(assets) ==
    [i \in DOMAIN assets |->
        [listingid |-> <<i>>,
         asset |-> [id |-> assets[i].id, appid |-> assets[i].appid,
                    contextid |-> assets[i].contextid]]]

\* r.json() of the listings render request
ListingResponses ==
    { [success |-> FALSE],
      [success |-> TRUE, total_count |-> 0, assets |-> <<>>, listinginfo |-> <<>>] }
    \cup { [success |-> TRUE, total_count |-> Len(as), assets |-> as,
            listinginfo |-> ListingInfoOf(as)] : as \in ListingAssetLists }

\* asset fragments of a history trade
T1 == [assetid |-> <<3, 1>>, classid |-> <<1>>, appid |-> 730, amount |-> <<1>>]
T2 == [assetid |-> <<3, 2>>, classid |-> <<2>>, appid |-> 730, amount |-> <<2>>]

\* data["trades"]: each trade with the asset lists it has
TradeLists ==
    { <<>>,
      << [tradeid |-> <<1>>, assets_given |-> <<T1>>] >>,
      << [tradeid |-> <<1>>, assets_received |-> <<T1>>],
         [tradeid |-> <<2>>, assets_given |-> <<T2>>, assets_received |-> <<T1>>] >> }

\* a description fragment of a trade response, of a second class
D5 == [classid |-> <<2>>, instanceid |-> <<0>>, appid |-> 730, name |-> "e"]

\* data["descriptions"] of a trade history or trade status response
TradeDescLists == { <<>>, <<D1>>, <<D1, D2>>, <<D2, D1>>, <<D5, D1>> }

\* r.json() of GetTradeHistory and of GetTradeStatus
HistoryResponses ==
    { [none |-> TRUE] }
    \cup { [response |-> [descriptions |-> ds, trades |-> trs, total_trades |-> Len(trs)]] :
             ds \in TradeDescLists, trs \in TradeLists }

\* the fields of a GetTradeOffers response, each present or not
SentOffers == { <<>>, <<"s1">> }
ReceivedOffers == { <<>>, <<"r1">>, <<"r2", "r3">> }
NextCursors == { 0, 5, 9 }

OffersPageOf(has_sent, sent_, has_received, received_, has_cursor, next_cursor) ==
    [k \in (IF has_sent THEN {"trade_offers_sent"} ELSE {})
           \cup (IF has_received THEN {"trade_offers_received"} ELSE {})
           \cup (IF has_cursor THEN {"next_cursor"} ELSE {})
           \cup {"total"} |->
        IF k = "trade_offers_sent" THEN sent_
        ELSE IF k = "trade_offers_received" THEN received_
        ELSE IF k = "next_cursor" THEN next_cursor
        ELSE 1]

\* r.json() of one GetTradeOffers request
OffersResponses ==
    { [none |-> TRUE] }
    \cup { [response |-> OffersPageOf(TRUE, s, TRUE, r, TRUE, c)] :
             s \in SentOffers \ {<<>>}, r \in ReceivedOffers \ {<<>>}, c \in NextCursors }
    \cup { [response |-> OffersPageOf(FALSE, <<>>, TRUE, r, FALSE, 0)] :
             r \in ReceivedOffers \ {<<>>} }
    \cup { [response |-> OffersPageOf(TRUE, s, FALSE, <<>>, TRUE, c)] :
             s \in SentOffers \ {<<>>}, c \in NextCursors }

\* ------------------------------------------- the single-response resolvers

\* utils.create_ident_code: the key made of its arguments
CreateIdentCode(args) == args

\* the cache key of a description-bearing fragment (an asset of a listings
\* response, a description of a trade response)
DescrKey(fragment) == CreateIdentCode(<<fragment.classid, fragment.appid>>)

\* the mutant of CallCache: the cache is kept from one call to the next
CallCache_Kept(previous) == previous

\* item_descrs_map = {}: the cache is a local of the call, empty whatever an
\* earlier call cached
CallCache(previous) == <<>>

\* _update_item_descrs_map_for_public, lines 443-444: one asset fragment met
CachePublicDescription(map, a_data) ==
    [k \in DOMAIN map \cup {DescrKey(a_data)} |->
        IF k = DescrKey(a_data) THEN CreateItemDescriptionKwargs(a_data, <<a_data>>)
        ELSE map[k]]

\* _update_item_descrs_map_for_public: the loops over rj["assets"]
RECURSIVE UpdateItemDescrsMapForPublic(_, _)
UpdateItemDescrsMapForPublic(assets, map) ==
    IF assets = <<>> THEN map
    ELSE UpdateItemDescrsMapForPublic(Tail(assets), CachePublicDescription(map, Head(assets)))

\* _parse_items_for_listings: the MarketListingItem of one asset fragment
MarketListingItem(a_data, descr) ==
    [asset_id |-> DecVal(a_data.id),
     class_id |-> descr.class_id,
     instance_id |-> descr.instance_id,
     game |-> descr.game,
     name |-> descr.name]

\* the key of econ_items_map
EconKey(a) == CreateIdentCode(<<a.id, a.appid, a.contextid>>)

\* _parse_items_for_listings: econ_items_map, an entry made at the first
\* asset of its key
RECURSIVE ParseItemsForListings(_, _, _)
ParseItemsForListings(data, map, econ_items_map) ==
    IF data = <<>> THEN econ_items_map
    ELSE ParseItemsForListings(Tail(data), map,
           IF EconKey(Head(data)) \in DOMAIN econ_items_map THEN econ_items_map
           ELSE [k \in DOMAIN econ_items_map \cup {EconKey(Head(data))} |->
                   IF k = EconKey(Head(data))
                   THEN MarketListingItem(Head(data), map[DescrKey(Head(data))])
                   ELSE econ_items_map[k]])

\* get_item_listings, lines 415-432: the listings built from rj["listinginfo"]
MarketListings(rj, econ_items_map) ==
    [i \in DOMAIN rj.listinginfo |->
        [id |-> DecVal(rj.listinginfo[i].listingid),
         item |-> econ_items_map[EconKey(rj.listinginfo[i].asset)]]]

\* _update_item_descrs_map_for_trades, lines 124-126: one description met
CacheTradeDescription(map, desc) ==
    IF DescrKey(desc) \in DOMAIN map THEN map
    ELSE [k \in DOMAIN map \cup {DescrKey(desc)} |->
            IF k = DescrKey(desc) THEN CreateItemDescriptionKwargs(desc, <<desc>>)
            ELSE map[k]]

\* _update_item_descrs_map_for_trades: the loop over data
RECURSIVE UpdateItemDescrsMapForTrades(_, _)
UpdateItemDescrsMapForTrades(data, map) ==
    IF data = <<>> THEN map
    ELSE UpdateItemDescrsMapForTrades(Tail(data), CacheTradeDescription(map, Head(data)))

\* data.get(name, ()) of a history trade
AssetsOf(trade, name) == IF Has(trade, name) THEN trade[name] ELSE <<>>

\* _parse_items_for_history_trades
ParseItemsForHistoryTrades(its, map) ==
    [i \in DOMAIN its |->
        [asset_id |-> DecVal(its[i].assetid),
         amount |-> DecVal(its[i].amount),
         class_id |-> map[DescrKey(its[i])].class_id,
         game |-> map[DescrKey(its[i])].game,
         name |-> map[DescrKey(its[i])].name]]

\* _create_history_trade_offer
CreateHistoryTradeOffer(data, map) ==
    [id |-> DecVal(data.tradeid),
     assets_given |-> ParseItemsForHistoryTrades(AssetsOf(data, "assets_given"), map),
     assets_received |-> ParseItemsForHistoryTrades(AssetsOf(data, "assets_received"), map)]

\* the lookup of line 362 raises KeyError for a key the cache has not
HistoryTradeRaises(data, map) ==
    IF \E name \in {"assets_given", "assets_received"} :
          \E i \in DOMAIN AssetsOf(data, name) :
              DescrKey(AssetsOf(data, name)[i]) \notin DOMAIN map
    THEN "KeyError" ELSE "none"

TradeInit ==
    /\ t_op = "none"
    /\ tr_pc = "idle"
    /\ t_resp = [none |-> TRUE]
    /\ call_descrs_map = <<>>
    /\ cached_before = {}
    /\ t_outcome = "none"
    /\ t_error = "none"
    /\ t_result = <<>>
    /\ cursor = 0
    /\ offer_sent_datas = <<>>
    /\ offer_received_datas = <<>>
    /\ cursors = <<>>
    /\ tr_pages = <<>>

\* a call starts: what the model remembers of the call before is dropped,
\* the keys it cached are added to those of the earlier calls
StartTradeCall(op) ==
    /\ tr_pc = "idle"
    /\ t_op' = op
    /\ cached_before' = cached_before \cup DOMAIN call_descrs_map
    /\ cursor' = 0
    /\ offer_sent_datas' = <<>>
    /\ offer_received_datas' = <<>>
    /\ cursors' = <<>>
    /\ tr_pages' = <<>>

TradeRaise(kind) ==
    /\ t_outcome' = "raised"
    /\ t_error' = kind
    /\ t_result' = <<>>

TradeReturn(value) ==
    /\ t_outcome' = "returned"
    /\ t_error' = "none"
    /\ t_result' = value

\* get_item_listings, lines 405-432
GetItemListings ==
    /\ StartTradeCall("listings")
    /\ UNCHANGED tr_pc
    /\ \E rj \in ListingResponses :
          /\ t_resp' = rj
          /\ IF ~rj.success
             THEN /\ TradeRaise("ApiError")
                  /\ call_descrs_map' = <<>>
             ELSE IF rj.total_count = 0 \/ rj.assets = <<>>
             THEN /\ TradeReturn(<< <<>>, 0 >>)
                  /\ call_descrs_map' = <<>>
             ELSE LET map == UpdateItemDescrsMapForPublic(rj.assets, CallCache(call_descrs_map))
                      econ_items_map == ParseItemsForListings(rj.assets, map, <<>>)
                  IN  /\ call_descrs_map' = map
                      /\ TradeReturn(<< MarketListings(rj, econ_items_map), rj.total_count >>)
    /\ UNCHANGED <<loginVars, invVars, extVars>>

\* get_trade_history, lines 321-333
GetTradeHistory ==
    /\ StartTradeCall("history")
    /\ UNCHANGED tr_pc
    /\ \E rj \in HistoryResponses :
          /\ t_resp' = rj
          /\ IF ~Has(rj, "response")
             THEN /\ TradeRaise("ApiError")
                  /\ call_descrs_map' = <<>>
             ELSE LET data == rj.response
                      map == UpdateItemDescrsMapForTrades(data.descriptions,
                                                           CallCache(call_descrs_map))
                  IN  /\ call_descrs_map' = map
                      /\ IF \E i \in DOMAIN data.trades :
                               HistoryTradeRaises(data.trades[i], map) # "none"
                         THEN TradeRaise("KeyError")
                         ELSE TradeReturn(<< [i \in DOMAIN data.trades |->
                                                CreateHistoryTradeOffer(data.trades[i], map)],
                                             data.total_trades >>)
    /\ UNCHANGED <<loginVars, invVars, extVars>>

\* get_trade_receipt, lines 270-279
GetTradeReceipt ==
    /\ StartTradeCall("receipt")
    /\ UNCHANGED tr_pc
    /\ \E rj \in HistoryResponses :
          /\ t_resp' = rj
          /\ IF ~Has(rj, "response")
             THEN /\ TradeRaise("ApiError")
                  /\ call_descrs_map' = <<>>
             ELSE LET data == rj.response
                      map == UpdateItemDescrsMapForTrades(data.descriptions,
                                                           CallCache(call_descrs_map))
                  IN  /\ call_descrs_map' = map
                      /\ IF data.trades = <<>>
                         THEN TradeRaise("IndexError")
                         ELSE IF HistoryTradeRaises(data.trades[1], map) # "none"
                         THEN TradeRaise("KeyError")
                         ELSE TradeReturn(CreateHistoryTradeOffer(data.trades[1], map))
    /\ UNCHANGED <<loginVars, invVars, extVars>>

\* ------------------------------------------------------ fetch_trade_offers

\* lines 207-223: the parameters and the locals before the loop
FetchTradeOffersStart ==
    /\ StartTradeCall("offers")
    /\ tr_pc' = "loop"
    /\ t_resp' = [none |-> TRUE]
    /\ call_descrs_map' = CallCache(call_descrs_map)
    /\ t_outcome' = "running"
    /\ t_error' = "none"
    /\ t_result' = <<>>
    /\ UNCHANGED <<loginVars, invVars, extVars>>

\* data.get(name, ()) of a GetTradeOffers response
OffersOf(data, name) == IF Has(data, name) THEN data[name] ELSE <<>>

\* the mutant of NextCursor: the continuation is read as absent
NextCursor_Absent(data) == 0

\* line 236: data.get("next_cursor", 0)
NextCursor(data) == IF Has(data, "next_cursor") THEN data.next_cursor ELSE 0

\* one turn of the loop of lines 225-238, and lines 248-251 when it ends
FetchTradeOffersPage ==
    /\ tr_pc = "loop"
    /\ Len(cursors) < MaxFetches
    /\ cursors' = Append(cursors, cursor)
    /\ \E rj \in OffersResponses :
          /\ tr_pages' = Append(tr_pages, rj)
          /\ t_resp' = rj
          /\ IF ~Has(rj, "response")
             THEN /\ TradeRaise("ApiError")
                  /\ tr_pc' = "idle"
                  /\ UNCHANGED <<cursor, offer_sent_datas, offer_received_datas>>
             ELSE LET data == rj.response
                  IN  /\ offer_sent_datas' =
                            offer_sent_datas \o OffersOf(data, "trade_offers_sent")
                      /\ offer_received_datas' =
                            offer_received_datas \o OffersOf(data, "trade_offers_received")
                      /\ cursor' = NextCursor(data)
                      /\ IF NextCursor(data) = 0
                         THEN /\ tr_pc' = "idle"
                              /\ TradeReturn([sent |-> offer_sent_datas',
                                              received |-> offer_received_datas'])
                         ELSE UNCHANGED <<tr_pc, t_outcome, t_error, t_result>>
    /\ UNCHANGED <<t_op, call_descrs_map, cached_before>>
    /\ UNCHANGED <<loginVars, invVars, extVars>>

TradeNext ==
    \/ GetItemListings
    \/ GetTradeHistory
    \/ GetTradeReceipt
    \/ FetchTradeOffersStart
    \/ FetchTradeOffersPage

\* ------------------------------------------------- the trade-offer storage

\* Python values whose type the code tests or compares across types
PyNone == [type |-> "NoneType"]

PyInt(n) == [type |-> "int", int |-> n]

PyDict(d) == [type |-> "dict", dict |-> d]

PyTradeOffer(o) == [type |-> "TradeOffer", offer |-> o]

\* bool(v)
Truthy(v) ==
    IF v.type = "NoneType" THEN FALSE
    ELSE IF v.type = "int" THEN v.int # 0
    ELSE IF v.type = "dict" THEN DOMAIN v.dict # {}
    ELSE TRUE

\* a == b: values of different types are unequal
PyEq(a, b) ==
    /\ a.type = b.type
    /\ a.type = "int" => a.int = b.int
    /\ a.type = "dict" => a.dict = b.dict
    /\ a.type = "TradeOffer" => a.offer = b.offer

OfferIds == {1, 2}

\* models.TradeOffer, the two fields the calls read
TradeOffers == [id : OfferIds, is_our_offer : BOOLEAN]

\* offer: int | TradeOffer
OfferArgs == { PyInt(i) : i \in OfferIds } \cup { PyTradeOffer(o) : o \in TradeOffers }

\* the offer of the GetTradeOffer response, as the service describes it
RawOffer(offer_id) == [tradeofferid |-> <<offer_id>>, is_our_offer |-> FALSE]

\* r.json() of the POST of _do_action_with_offer: the id of the offer acted
\* on, an error text, an empty object
ActionResponses ==
    { [tradeofferid |-> <<i>>] : i \in OfferIds } \cup { [strError |-> "e"], <<>> }

\* r.json() of the GET of fetch_trade
FetchTradeResponses ==
    { [response |-> [offer |-> RawOffer(i)]] : i \in OfferIds }
        \cup { [response |-> [descriptions |-> <<>>]], [response |-> <<>>], <<>> }

\* who provides the storage: the methods of TradeMixin as they are (lines
\* 39-75, empty bodies), or an override that keeps the offers in a mapping
Storages == {"base", "mapping"}

NoOfferCall == [op |-> "none", arg |-> PyNone, outcome |-> "none",
                error |-> "none", result |-> PyNone, sent |-> <<>>,
                resp |-> PyNone, removed |-> <<>>, cached |-> PyNone]

OffersInit ==
    /\ storage \in Storages
    /\ offer_store = <<>>
    /\ o_call = NoOfferCall

\* get_trade_offer
GetTradeOfferFrom(st, store, offer_id) ==
    IF st = "mapping" /\ offer_id \in DOMAIN store
    THEN PyTradeOffer(store[offer_id])
    ELSE PyNone

\* store_trade_offer
StoreAfter(st, store, offer_id, offer) ==
    IF st = "mapping"
    THEN [k \in DOMAIN store \cup {offer_id} |-> IF k = offer_id THEN offer ELSE store[k]]
    ELSE store

\* remove_trade_offer
RemoveAfter(st, store, offer_id) ==
    IF st = "mapping"
    THEN [k \in DOMAIN store \ {offer_id} |-> store[k]]
    ELSE store

\* the application stores an offer it holds: no call of the library does
\* (the calls of lines 114 and 243 are commented out)
StoreTradeOffer ==
    /\ \E o \in TradeOffers :
          /\ offer_store' = StoreAfter(storage, offer_store, o.id, o)
          /\ o_call' = [NoOfferCall EXCEPT !.op = "store", !.arg = PyTradeOffer(o),
                                           !.outcome = "returned"]
    /\ UNCHANGED storage
    /\ UNCHANGED <<loginVars, invVars, tradeVars, guardVars, reVars>>

\* _do_action_with_offer, lines 373-375: what it returns for the response rj
DoActionWithOffer(rj) == PyDict(rj)

\* decline_trade_offer, lines 397-403: the id it acts on
OfferIdOf(offer) == IF offer.type = "TradeOffer" THEN offer.offer.id ELSE offer.int

\* decline_trade_offer, lines 397-403: to_remove
ToRemoveOf(offer) == IF offer.type = "TradeOffer" THEN offer ELSE PyNone

\* decline_trade_offer, line 406
DeclineRaises(resp_offer_id, offer_id) ==
    IF ~Truthy(resp_offer_id) \/ ~PyEq(resp_offer_id, PyInt(offer_id))
    THEN "ApiError" ELSE "none"

\* decline_trade_offer, lines 394-409
DeclineTradeOffer ==
    /\ \E offer \in OfferArgs :
          LET started == [NoOfferCall EXCEPT !.op = "decline", !.arg = offer,
                           !.cached = GetTradeOfferFrom(storage, offer_store, OfferIdOf(offer))]
              offer_id == OfferIdOf(offer)
              req == Request("decline", [offer_id |-> offer_id])
          IN  IF offer.type = "TradeOffer" /\ offer.offer.is_our_offer
              THEN /\ o_call' = [started EXCEPT !.outcome = "raised", !.error = "ValueError"]
                   /\ UNCHANGED offer_store
              ELSE \/ /\ o_call' = [started EXCEPT !.sent = <<req>>, !.outcome = "raised",
                                                !.error = "ClientResponseError"]
                      /\ UNCHANGED offer_store
                   \/ \E rj \in ActionResponses :
                         LET resp_offer_id == DoActionWithOffer(rj)
                             met == [started EXCEPT !.sent = <<req>>, !.resp = PyDict(rj)]
                         IN  IF DeclineRaises(resp_offer_id, offer_id) # "none"
                             THEN /\ o_call' = [met EXCEPT !.outcome = "raised",
                                                  !.error = DeclineRaises(resp_offer_id, offer_id)]
                                  /\ UNCHANGED offer_store
                             ELSE /\ o_call' = [met EXCEPT !.outcome = "returned",
                                                  !.removed = <<[offer_id |-> offer_id,
                                                                 offer |-> ToRemoveOf(offer)]>>]
                                  /\ offer_store' = RemoveAfter(storage, offer_store, offer_id)
    /\ UNCHANGED storage
    /\ UNCHANGED <<loginVars, invVars, tradeVars, guardVars, reVars>>

\* cancel_trade_offer, lines 377-388: the response of the POST is returned as
\* it came, the storage is left alone
CancelTradeOffer ==
    /\ \E offer \in OfferArgs :
          LET started == [NoOfferCall EXCEPT !.op = "cancel", !.arg = offer,
                           !.cached = GetTradeOfferFrom(storage, offer_store, OfferIdOf(offer))]
              req == Request("cancel", [offer_id |-> offer])
          IN  \/ o_call' = [started EXCEPT !.sent = <<req>>, !.outcome = "raised",
                                        !.error = "ClientResponseError"]
              \/ \E rj \in ActionResponses :
                    o_call' = [started EXCEPT !.sent = <<req>>, !.resp = PyDict(rj),
                                  !.outcome = "returned",
                                  !.result = DoActionWithOffer(rj)]
    /\ UNCHANGED <<storage, offer_store>>
    /\ UNCHANGED <<loginVars, invVars, tradeVars, guardVars, reVars>>

\* fetch_trade, lines 106-115: what it raises for the response rj
FetchTradeRaises(rj) ==
    IF ~Has(rj, "response") \/ DOMAIN rj.response = {} THEN "ApiError"
    ELSE IF ~Has(rj.response, "offer") THEN "KeyError"
    ELSE "none"

\* fetch_trade, line 115: what it returns
FetchTradeReturns(rj) == PyDict(rj.response.offer)

\* fetch_trade, lines 110-115: the storage after a fetch that returned
StoreAfterFetch(st, store, rj) == store

\* get_or_fetch_trade_offer, lines 84-88, with the fetch_trade it awaits
GetOrFetchTradeOffer ==
    /\ \E offer_id \in OfferIds :
          LET trade == GetTradeOfferFrom(storage, offer_store, offer_id)
              started == [NoOfferCall EXCEPT !.op = "get_or_fetch", !.arg = PyInt(offer_id),
                                          !.cached = trade]
              req == Request("fetch_trade", [tradeofferid |-> offer_id])
          IN  IF Truthy(trade)
              THEN /\ o_call' = [started EXCEPT !.outcome = "returned", !.result = trade]
                   /\ UNCHANGED offer_store
              ELSE \/ /\ o_call' = [started EXCEPT !.sent = <<req>>, !.outcome = "raised",
                                                !.error = "ClientResponseError"]
                      /\ UNCHANGED offer_store
                   \/ \E rj \in FetchTradeResponses :
                         LET met == [started EXCEPT !.sent = <<req>>, !.resp = PyDict(rj)]
                         IN  IF FetchTradeRaises(rj) # "none"
                             THEN /\ o_call' = [met EXCEPT !.outcome = "raised",
                                                           !.error = FetchTradeRaises(rj)]
                                  /\ UNCHANGED offer_store
                             ELSE /\ o_call' = [met EXCEPT !.outcome = "returned",
                                                           !.result = FetchTradeReturns(rj)]
                                  /\ offer_store' = StoreAfterFetch(storage, offer_store, rj)
    /\ UNCHANGED storage
    /\ UNCHANGED <<loginVars, invVars, tradeVars, guardVars, reVars>>

OffersNext ==
    \/ StoreTradeOffer
    \/ DeclineTradeOffer
    \/ CancelTradeOffer
    \/ GetOrFetchTradeOffer

\* no call on a trade offer is made
OffersIdle ==
    /\ storage = "base"
    /\ offer_store = <<>>
    /\ o_call = NoOfferCall

\* ------------------------------------- the time aligner and link_steam_guard

\* coroutines that call TimeAligner.get_steam_time_async concurrently, beside
\* the one link_steam_guard makes (caller 0)
MaxCallers == 1

\* seconds the local clock advances in one behaviour
MaxClock == 2

Callers == 0..MaxCallers

\* server clock minus local clock, in seconds
Skews == {0, 5}

\* self._shared_secret as given to the constructor (client.py, line 80)
Secrets == {None, "s1"}

\* r.json() of the AddAuthenticator POST
AddResponses == { [shared_secret |-> "s2", status |-> 1], [status |-> 2] }

\* r.json() of the FinalizeAddAuthenticator POST
FinalizeLinkResponses == { [success |-> TRUE], [success |-> FALSE], [status |-> 2] }

\* what the QueryTime POST meets: the server's time, a body without it, a
\* transport error
TimeAnswers == {"server_time", "no_time", "error"}

IdleCaller == [pc |-> "idle", current_time |-> -1, returned |-> -1]

NoLink == [pc |-> "idle", outcome |-> "none", error |-> "none",
           secret_before |-> None, mafile_data |-> <<>>, sent |-> <<>>]

GuardInit ==
    /\ aligned = FALSE
    /\ time_difference = 0
    /\ now = 0
    /\ skew \in Skews
    /\ shared_secret \in Secrets
    /\ time_call = [c \in Callers |-> IdleCaller]
    /\ link = NoLink
    /\ queries = <<>>
    /\ offset_sets = <<>>

\* the local clock advances
Tick ==
    /\ now < MaxClock
    /\ now' = now + 1
    /\ UNCHANGED <<aligned, time_difference, skew, shared_secret, time_call,
                   link, queries, offset_sets>>
    /\ UNCHANGED <<loginVars, invVars, tradeVars, offerVars, reVars>>

\* get_steam_time_async, line 23: int(now + TimeAligner._time_difference)
SteamTime(clock, difference) == clock + difference

\* get_steam_time_async, line 21: the test that sends the caller to
\* align_time_async
NeedsAlign(is_aligned) == ~is_aligned

\* get_steam_time_async up to its first suspension: the return when the
\* aligner is aligned, else lines 27-33 of align_time_async up to the POST
GetSteamTime(c) ==
    /\ time_call[c].pc = "idle"
    /\ c = 0 => link.pc = "time"
    /\ IF NeedsAlign(aligned)
       THEN /\ time_call' = [time_call EXCEPT ![c] =
                               [pc |-> "align", current_time |-> now, returned |-> -1]]
            /\ queries' = Append(queries, [caller |-> c, aligned |-> aligned])
       ELSE /\ time_call' = [time_call EXCEPT ![c] =
                               [pc |-> "done", current_time |-> -1,
                                returned |-> SteamTime(now, time_difference)]]
            /\ UNCHANGED queries
    /\ UNCHANGED <<aligned, time_difference, now, skew, shared_secret, link,
                   offset_sets>>
    /\ UNCHANGED <<loginVars, invVars, tradeVars, offerVars, reVars>>

\* align_time_async, lines 34-37: the offset for the response's server_time
TimeDifference(server_time, current_time) == server_time - current_time

\* align_time_async from the response of its POST on (lines 33-39), then the
\* return of get_steam_time_async (line 23)
AlignRespond(c) ==
    /\ time_call[c].pc = "align"
    /\ \E answer \in TimeAnswers :
          IF answer = "server_time"
          THEN /\ time_difference' = TimeDifference(now + skew, time_call[c].current_time)
               /\ aligned' = TRUE
               /\ offset_sets' = Append(offset_sets,
                                    [caller |-> c, aligned |-> aligned,
                                     before |-> time_difference,
                                     offset |-> time_difference'])
          ELSE UNCHANGED <<time_difference, aligned, offset_sets>>
    /\ time_call' = [time_call EXCEPT ![c] =
                        [pc |-> "done", current_time |-> -1,
                         returned |-> SteamTime(now, time_difference')]]
    /\ UNCHANGED <<now, skew, shared_secret, link, queries>>
    /\ UNCHANGED <<loginVars, invVars, tradeVars, offerVars, reVars>>

\* dict.get: the value of the key, None when absent
Get(d, key) == IF Has(d, key) THEN d[key] ELSE None

\* link_steam_guard, line 11: the secret the client holds once the
\* add-authenticator response is in
SecretAfterAdd(secret, mafile_data) == Get(mafile_data, "shared_secret")

\* link_steam_guard, lines 10-11, and _finalize_link_steam_guard up to its
\* call of get_steam_time_async; or the POST of _add_authenticator raising
LinkSteamGuard ==
    /\ link.pc = "idle"
    /\ link.outcome = "none"
    /\ LET started == [link EXCEPT !.secret_before = shared_secret,
                                   !.sent = <<Request("add_authenticator", <<>>)>>]
       IN  \/ /\ link' = [started EXCEPT !.outcome = "raised",
                                         !.error = "ClientResponseError"]
              /\ UNCHANGED shared_secret
           \/ \E mafile_data \in AddResponses :
                 /\ shared_secret' = SecretAfterAdd(shared_secret, mafile_data)
                 /\ link' = [started EXCEPT !.pc = "time", !.outcome = "running",
                                            !.mafile_data = mafile_data]
    /\ UNCHANGED <<aligned, time_difference, now, skew, time_call, queries,
                   offset_sets>>
    /\ UNCHANGED <<loginVars, invVars, tradeVars, offerVars, reVars>>

\* SteamGuardMixin.two_factor_code: the code of the secret at the time
TwoFactorCode(secret, time) == <<secret, time>>

\* link_steam_guard, lines 13-16: what it raises for the finalization result
LinkRaises(res) ==
    IF ~Has(res, "success") THEN "ApiError"
    ELSE IF ~res.success THEN "ApiError"
    ELSE "none"

\* _finalize_link_steam_guard from the return of get_steam_time_async on
\* (lines 38-47), then lines 13-16 of link_steam_guard
FinalizeLinkSteamGuard ==
    /\ link.pc = "time"
    /\ time_call[0].pc = "done"
    /\ LET req == Request("finalize_add_authenticator",
                     [authenticator_time |-> time_call[0].returned,
                      authenticator_code |-> TwoFactorCode(shared_secret, now)])
       IN  \/ \E kind \in {"ClientResponseError", "MailError"} :
                 link' = [link EXCEPT !.pc = "idle", !.outcome = "raised",
                             !.error = kind,
                             !.sent = IF kind = "MailError" THEN @ ELSE Append(@, req)]
           \/ \E res \in FinalizeLinkResponses :
                 link' = [link EXCEPT !.pc = "idle",
                             !.sent = Append(@, req),
                             !.outcome = IF LinkRaises(res) # "none"
                                         THEN "raised" ELSE "returned",
                             !.error = LinkRaises(res)]
    /\ UNCHANGED <<aligned, time_difference, now, skew, shared_secret,
                   time_call, queries, offset_sets>>
    /\ UNCHANGED <<loginVars, invVars, tradeVars, offerVars, reVars>>

GuardNext ==
    \/ Tick
    \/ \E c \in Callers : GetSteamTime(c)
    \/ \E c \in Callers : AlignRespond(c)
    \/ LinkSteamGuard
    \/ FinalizeLinkSteamGuard

\* no call of the time aligner or of link_steam_guard is made
GuardIdle ==
    /\ aligned = FALSE
    /\ time_difference = 0
    /\ now = 0
    /\ skew = 0
    /\ shared_secret = None
    /\ time_call = [c \in Callers |-> IdleCaller]
    /\ link = NoLink
    /\ queries = <<>>
    /\ offset_sets = <<>>

\* ---------------------------------------- two login() calls on one session

\* the login() calls two coroutines make on the same client
Attempts == {1, 2}

IdleAttempt == [pc |-> "idle", error |-> "none", transfers |-> 0]

ReloginInit ==
    /\ att = [a \in Attempts |-> IdleAttempt]
    /\ re_log = <<>>

\* the fields of the login model that two interleaved attempts leave alone
reloginKept == <<password, pc, attempts, pub_key, ts, session_data, fin_data,
                 tasks, outcome, error, sent, key_resp, poll_resp, fin_resp,
                 logged_before, tokens_before, guard_resp, call>>

\* what an attempt's step leaves of the session to the other attempt
ReStep(a, next_pc) == att' = [att EXCEPT ![a].pc = next_pc]

ReRaise(a, kind) == att' = [att EXCEPT ![a].pc = "raised", ![a].error = kind]

\* login(), line 113: the attempt starts, with the optional GET
ReLoginStart(a) ==
    /\ att[a].pc = "idle"
    /\ ReStep(a, "rsa")
    /\ \E init_session \in BOOLEAN :
          IF init_session
          THEN \E sid \in SessionIdCookies : jar' = StoreCookie(jar, "sessionid", sid)
          ELSE UNCHANGED jar
    /\ UNCHANGED <<is_logged, refresh_token, access_token, re_log>>
    /\ UNCHANGED reloginKept
    /\ UNCHANGED <<invVars, tradeVars, offerVars, guardVars>>

\* _get_rsa_key
ReGetRsaKey(a) ==
    /\ att[a].pc = "rsa"
    /\ \E rj \in KeyResponses :
          IF KeyWellFormed(rj) THEN ReStep(a, "begin") ELSE ReRaise(a, "ApiError")
    /\ UNCHANGED <<is_logged, refresh_token, access_token, jar, re_log>>
    /\ UNCHANGED reloginKept
    /\ UNCHANGED <<invVars, tradeVars, offerVars, guardVars>>

\* _begin_auth_session_with_credentials
ReBeginAuth(a) ==
    /\ att[a].pc = "begin"
    /\ \E sd \in SessionDatas : ReStep(a, "guard")
    /\ UNCHANGED <<is_logged, refresh_token, access_token, jar, re_log>>
    /\ UNCHANGED reloginKept
    /\ UNCHANGED <<invVars, tradeVars, offerVars, guardVars>>

\* _update_auth_session_with_steam_guard_code
ReUpdateGuardCode(a) ==
    /\ att[a].pc = "guard"
    /\ \E accepted \in BOOLEAN :
          IF GuardRaises(accepted) = "none"
          THEN ReStep(a, "poll") ELSE ReRaise(a, GuardRaises(accepted))
    /\ UNCHANGED <<is_logged, refresh_token, access_token, jar, re_log>>
    /\ UNCHANGED reloginKept
    /\ UNCHANGED <<invVars, tradeVars, offerVars, guardVars>>

\* the mutant of RefreshAfterPoll: a refresh token the session holds is kept
RefreshAfterPoll_KeepFirst(current, rj) ==
    IF current # None THEN current ELSE rj.response.refresh_token

\* _poll_auth_session_status, line 232
RefreshAfterPoll(current, rj) == rj.response.refresh_token

\* _poll_auth_session_status, line 233
AccessAfterPoll(current, rj) == rj.response.access_token

\* what the poll of an attempt stored in the session, None for a field it
\* left alone
PollEvent(a, refresh, access) ==
    [attempt |-> a, step |-> "poll", refresh |-> refresh, access |-> access]

\* _poll_auth_session_status
RePollStatus(a) ==
    /\ att[a].pc = "poll"
    /\ \E rj \in PollResponses :
          IF PollRaises(rj) # "none"
          THEN /\ ReRaise(a, PollRaises(rj))
               /\ re_log' = Append(re_log, PollEvent(a, None, None))
               /\ UNCHANGED <<refresh_token, access_token>>
          ELSE IF ~Has(rj.response, "refresh_token")
          THEN /\ ReRaise(a, "KeyError")
               /\ re_log' = Append(re_log, PollEvent(a, None, None))
               /\ UNCHANGED <<refresh_token, access_token>>
          ELSE IF ~Has(rj.response, "access_token")
          THEN /\ refresh_token' = RefreshAfterPoll(refresh_token, rj)
               /\ ReRaise(a, "KeyError")
               /\ re_log' = Append(re_log, PollEvent(a, rj.response.refresh_token, None))
               /\ UNCHANGED access_token
          ELSE /\ refresh_token' = RefreshAfterPoll(refresh_token, rj)
               /\ access_token' = AccessAfterPoll(access_token, rj)
               /\ ReStep(a, "finalize")
               /\ re_log' = Append(re_log, PollEvent(a, rj.response.refresh_token,
                                                     rj.response.access_token))
    /\ UNCHANGED <<is_logged, jar>>
    /\ UNCHANGED reloginKept
    /\ UNCHANGED <<invVars, tradeVars, offerVars, guardVars>>

\* _finalize_login, line 237: "nonce": self._refresh_token
FinalizeNonce(session_refresh_token) == session_refresh_token

\* _finalize_login, then lines 121-124 of login()
ReFinalizeLogin(a) ==
    /\ att[a].pc = "finalize"
    /\ re_log' = Append(re_log, [attempt |-> a, step |-> "finalize",
                                 refresh |-> FinalizeNonce(refresh_token),
                                 access |-> None])
    /\ \E rj \in FinalizeResponses :
          IF FinalizeRaises(rj) # "none" THEN ReRaise(a, FinalizeRaises(rj))
          ELSE IF ~Has(rj, "steamID") THEN ReRaise(a, "KeyError")
          ELSE att' = [att EXCEPT ![a].pc = "wait",
                                  ![a].transfers = Len(rj.transfer_info)]
    /\ UNCHANGED <<is_logged, refresh_token, access_token, jar>>
    /\ UNCHANGED reloginKept
    /\ UNCHANGED <<invVars, tradeVars, offerVars, guardVars>>

\* lines 125-130 of login(): the attempt's transfers have all settled, what
\* the community domain answered is in the jar, is_logged is set
ReWaitReturn(a) ==
    /\ att[a].pc = "wait"
    /\ ReStep(a, "returned")
    /\ \E cookie \in Cookies, sid \in SessionIdCookies :
          jar' = StoreCookie(StoreCookie(jar, "steamLoginSecure", CookieValue(cookie)),
                             "sessionid", sid)
    /\ is_logged' = TRUE
    /\ UNCHANGED <<refresh_token, access_token, re_log>>
    /\ UNCHANGED reloginKept
    /\ UNCHANGED <<invVars, tradeVars, offerVars, guardVars>>

ReloginNext ==
    \/ \E a \in Attempts : ReLoginStart(a)
    \/ \E a \in Attempts : ReGetRsaKey(a)
    \/ \E a \in Attempts : ReBeginAuth(a)
    \/ \E a \in Attempts : ReUpdateGuardCode(a)
    \/ \E a \in Attempts : RePollStatus(a)
    \/ \E a \in Attempts : ReFinalizeLogin(a)
    \/ \E a \in Attempts : ReWaitReturn(a)

ExtIdle == OffersIdle /\ GuardIdle /\ ReloginInit

\* ---------------------------------------------------------- specifications

Init == LoginInit /\ InvInit /\ TradeInit /\ ExtIdle

\* the calls of one client on its session: login, logout, token refresh
SpecLogin == Init /\ [][LoginNext]_vars

\* the inventory passes of one client
InitInv == LoginInit /\ InvInit /\ TradeInit /\ ExtIdle

SpecInv == InitInv /\ [][InvNext]_vars

\* the calls of one client on the market and on its trades, one at a time
InitTrade == LoginInit /\ InvInit /\ TradeInit /\ ExtIdle

SpecTrade == InitTrade /\ [][TradeNext]_vars

\* the calls of one client on its trade offers and their storage
InitOffers ==
    LoginInit /\ InvInit /\ TradeInit /\ OffersInit /\ GuardIdle /\ ReloginInit

SpecOffers == InitOffers /\ [][OffersNext]_vars

\* concurrent callers of the time aligner beside one link_steam_guard()
InitGuard ==
    LoginInit /\ InvInit /\ TradeInit /\ OffersIdle /\ GuardInit /\ ReloginInit

SpecGuard == InitGuard /\ [][GuardNext]_vars

\* two login() calls interleaved on one session
InitRelogin == LoginInit /\ InvInit /\ TradeInit /\ ExtIdle

SpecRelogin == InitRelogin /\ [][ReloginNext]_vars

\* ----------------------------------------------------------------- claims

TransferRequests ==
    { k \in DOMAIN sent : sent[k].kind = "transfer" }

RequestsOfKind(kind) == { k \in DOMAIN sent : sent[k].kind = kind }

\* login() has ended after having created its transfer tasks
EndedAfterTransfers == pc = "idle" /\ outcome # "running" /\ tasks # <<>>

AllSettled == \A i \in DOMAIN tasks : tasks[i].state = "done"

\* C1: a login() whose steps up to finalization all succeeded ends returned
\* and logged in exactly when every transfer response carried a non-empty
\* steamLoginSecure cookie, and otherwise ends raised without having set
\* is_logged.
C1_LoggedIffEveryCookie ==
    EndedAfterTransfers =>
        /\ (outcome = "returned" /\ is_logged)
              <=> (\A i \in DOMAIN tasks : tasks[i].cookie = "set")
        /\ (\E i \in DOMAIN tasks : tasks[i].cookie # "set")
              => (outcome = "raised" /\ is_logged = logged_before)

RemoteInteraction(rj) ==
    /\ Has(rj, "response")
    /\ Has(rj.response, "had_remote_interaction")
    /\ rj.response.had_remote_interaction

C3_NoCursorFetchedTwice ==
    \A i, j \in DOMAIN fetches :
        (i < j /\ fetches[i] # None) => fetches[i] # fetches[j]

SameKey(a, b) ==
    a.class_id = b.class_id /\ a.instance_id = b.instance_id /\ a.game = b.game

\* C4: any two items built in one pass, over all its pages, that have the same
\* class id, instance id and game have the same description fields.
C4_SameKeySameDescription ==
    /\ \A i, j \in DOMAIN items : SameKey(items[i], items[j]) => items[i].name = items[j].name
    /\ \A i, j \in DOMAIN result : SameKey(result[i], result[j]) => result[i].name = result[j].name

\* C4 witness: a returned pass with two items of one key from different pages,
\* the class having been described differently after its first fragment
C4_Witness ==
    /\ inv_outcome = "returned"
    /\ redescribed # {}
    /\ \E i, j \in DOMAIN items :
          /\ origins[i].page < origins[j].page
          /\ origins[j].classid \in redescribed
          /\ SameKey(items[i], items[j])
    /\ Len(result) >= 2

\* C5: every asset of every page parsed is built into an item that carries
\* the fields of the fragment that described its class first in the pass,
\* also when its own page has no fragment for the class; the lookup raises
\* only for a class no page of the pass has described.
C5_JoinedToCachedDescription ==
    /\ Len(items) = Len(origins)
    /\ \A i \in DOMAIN items :
          /\ origins[i].classid \in DOMAIN first_descr
          /\ items[i].class_id = DecVal(first_descr[origins[i].classid].classid)
          /\ items[i].instance_id = DecVal(first_descr[origins[i].classid].instanceid)
          /\ items[i].name = first_descr[origins[i].classid].name
    /\ inv_error = "KeyError" => unresolved # {}
    /\ (inv_outcome = "returned" /\ predicate = "none") => result = items

\* C5 witness: a returned item of a page after the first, its class joined on
\* a page that had no fragment for it
C5_Witness ==
    /\ inv_outcome = "returned"
    /\ predicate = "none"
    /\ \E i \in DOMAIN result :
          /\ origins[i].page > 1
          /\ origins[i].classid \in late_joins

\* the requests sent to the url of entry i of the transfer_info served
TransferRequestsFor(i) ==
    { k \in TransferRequests : sent[k].data.url = TransferInfo(Len(tasks))[i].url }

\* C6: when a transfer has failed for want of the cookie, no task of the login
\* is cancelled, every sibling not yet sent can still be sent, and login()
\* ends only with every task done and one request sent per task.
C6_SiblingsStillRun ==
    (\E i \in DOMAIN tasks : tasks[i].exc = "ApiError") =>
        /\ \A j \in DOMAIN tasks : tasks[j].state # "cancelled"
        /\ \A j \in DOMAIN tasks : tasks[j].state = "created" => ENABLED TransferSend(j)
        /\ \A j \in DOMAIN tasks : tasks[j].state = "sent" => ENABLED TransferRespond(j)
        /\ EndedAfterTransfers =>
              /\ AllSettled
              /\ \A j \in DOMAIN tasks : Cardinality(TransferRequestsFor(j)) = 1

\* C6 witness: login() over three transfers has ended, the second failed, the
\* first and the third were sent and got their cookie
C6_Witness ==
    /\ EndedAfterTransfers
    /\ Len(tasks) = 3
    /\ tasks[2].exc = "ApiError"
    /\ tasks[1].cookie = "set"
    /\ tasks[3].cookie = "set"
    /\ \A j \in 1..3 : TransferRequestsFor(j) # {}

\* C7: whenever login() awaits its transfers, one task exists per entry of
\* transfer_info; while some task is not done login() has not returned and
\* is_logged is as login() found it; a returned login() has every task done.
C7_AllSettledBarrier ==
    /\ pc = "wait" =>
          /\ Len(tasks) = Len(fin_data.transfer_info)
          /\ Len(tasks) >= 1
    /\ (pc = "wait" /\ ~AllSettled) =>
          /\ outcome = "running"
          /\ is_logged = logged_before
    /\ (tasks # <<>> /\ ~AllSettled) => pc = "wait"
    /\ (outcome = "returned") => (AllSettled /\ tasks # <<>>)

\* C7 witness: the third transfer is done, the first only sent, the second not
\* yet sent, and login() still waits with is_logged false
C7_Witness ==
    /\ pc = "wait"
    /\ Len(tasks) = 3
    /\ tasks[3].state = "done"
    /\ tasks[1].state = "sent"
    /\ tasks[2].state = "created"
    /\ ~is_logged

\* every page served so far that says more_items carries a last_assetid
CursorsPresent ==
    \A k \in DOMAIN pages : MoreItemsOf(pages[k]) => Has(pages[k], "last_assetid")

\* C8: the first request of a pass has no start_assetid and, the pages with
\* more_items carrying a last_assetid, request k+1 has page k's; the pass goes
\* on exactly while the pages say more_items, so a pass that returns has
\* issued as many requests as the index of the first page without more_items.
C8_OneFetchPerPage ==
    /\ Len(fetches) >= 1 => fetches[1] = None
    /\ CursorsPresent =>
          \A k \in DOMAIN fetches :
              k > 1 => (k - 1 \in DOMAIN pages /\ fetches[k] = pages[k - 1].last_assetid)
    /\ inv_pc = "loop" => \A k \in DOMAIN pages : MoreItemsOf(pages[k])
    /\ inv_outcome = "returned" =>
          /\ Len(fetches) = Len(pages)
          /\ Len(pages) >= 1
          /\ ~MoreItemsOf(pages[Len(pages)])
          /\ \A k \in 1..(Len(pages) - 1) : MoreItemsOf(pages[k])

\* C8 witness: a pass of three pages, the cursors 111 and 222 threaded
C8_Witness ==
    /\ inv_outcome = "returned"
    /\ fetches = <<None, "111", "222">>
    /\ Len(pages) = 3

C10_UnresolvedIsApiError ==
    unresolved # {} =>
        /\ inv_outcome = "raised"
        /\ inv_error = "ApiError"
        /\ result = <<>>

\* a served page names no continuation token
NoToken(page) == LastAssetidOf(page) = None

\* C11: an inventory pass stops exactly at a page whose continuation token is
\* absent: after a page with more_items true and no last_assetid no further
\* page is requested, and a pass that returned ended on a page without token.
C11_StopsAtAbsentToken ==
    /\ \A k \in DOMAIN pages :
          (MoreItemsOf(pages[k]) /\ NoToken(pages[k])) => Len(fetches) <= k
    /\ inv_outcome = "returned" => NoToken(pages[Len(pages)])

\* the cursor the loop holds after the pages pgs, whatever the predicate
RECURSIVE CursorAfter(_)
CursorAfter(pgs) ==
    IF pgs = <<>> THEN None
    ELSE IF MoreItemsOf(pgs[Len(pgs)]) THEN LastAssetidOf(pgs[Len(pgs)])
    ELSE CursorAfter(SubSeq(pgs, 1, Len(pgs) - 1))

\* the indices of the items that satisfy the predicate
Kept(pred, its) == { i \in DOMAIN its : Satisfies(pred, its[i]) }

\* the k-th smallest index of a set of indices
Nth(idx, k) == CHOOSE i \in idx : Cardinality({ j \in idx : j <= i }) = k

\* C12: the requests of a pass are a function of the pages served alone,
\* request k carrying the cursor left by pages 1..k-1 under any predicate, and
\* the result with a predicate is the subsequence of the items built, in their
\* order, that satisfy it.
C12_PredicateOnlyFilters ==
    /\ \A k \in DOMAIN fetches :
          /\ k - 1 <= Len(pages)
          /\ fetches[k] = CursorAfter(SubSeq(pages, 1, k - 1))
    /\ inv_outcome = "returned" =>
          /\ Len(result) = Cardinality(Kept(predicate, items))
          /\ \A k \in DOMAIN result : result[k] = items[Nth(Kept(predicate, items), k)]

\* C12 witness: a pass of two pages under a predicate returned some of its
\* items and dropped others
C12_Witness ==
    /\ inv_outcome = "returned"
    /\ predicate = "class1"
    /\ Len(pages) = 2
    /\ Len(result) >= 1
    /\ Len(result) < Len(items)
    /\ \E i \in DOMAIN items : i + 1 \in DOMAIN items
          /\ ~Satisfies(predicate, items[i]) /\ Satisfies(predicate, items[i + 1])

\* C18: an item whose description's app id is not a known game has the game
\* (app id, context id) of an asset of its class on its own page.
C18_FallbackPerPage ==
    \A i \in DOMAIN items :
        KnownGame(first_descr[origins[i].classid].appid) = <<>> =>
            items[i].game \in origins[i].page_games

\* C19: every item carries a description whose class id and instance id are
\* those of the asset fragment it was built from.
C19_KeyedByFullIdentity ==
    \A i \in DOMAIN items :
        /\ items[i].class_id = DecVal(origins[i].classid)
        /\ items[i].instance_id = DecVal(origins[i].instanceid)

\* C20: without predicate, a pass returns one item per asset fragment served,
\* page after page in fetch order and within a page in the page's asset order.
C20_AssetOrderKept ==
    (inv_outcome = "returned" /\ predicate = "none") =>
        /\ Len(result) = Len(origins)
        /\ \A i \in DOMAIN result :
              /\ result[i].asset_id = DecVal(origins[i].assetid)
              /\ result[i].class_id = DecVal(first_descr[origins[i].classid].classid)
        /\ \A i, j \in DOMAIN origins : i < j => origins[i].page <= origins[j].page
        /\ \A k \in DOMAIN pages : \E i \in DOMAIN origins : origins[i].page = k

\* C20 witness: two pages returned, the first of one asset, the second of the
\* assets 12 and 11 in that order
C20_Witness ==
    /\ inv_outcome = "returned"
    /\ predicate = "none"
    /\ Len(pages) = 2
    /\ Len(result) = 3
    /\ result[2].asset_id = 12
    /\ result[3].asset_id = 11
    /\ origins[1].page = 1
    /\ origins[2].page = 2

MalformedKey == key_resp # NoKeyResp /\ ~KeyWellFormed(key_resp)

C15_LogoutKeepsTokens ==
    /\ (call.op = "logout" /\ call.outcome = "returned") =>
          /\ Len(sent) = 1
          /\ sent[1].kind = "logout"
          /\ ~is_logged
          /\ <<refresh_token, access_token>> = tokens_before
    /\ (call.op = "logout" /\ call.outcome = "raised") => is_logged = logged_before

\* C15 witness: a logged-in session holding tokens has logged out
C15_Witness ==
    /\ call.op = "logout"
    /\ call.outcome = "returned"
    /\ logged_before
    /\ refresh_token # None
    /\ access_token # None

\* C16: refresh_access_token() leaves is_logged and both stored tokens as it
\* found them, and what it returns is the token part of the community
\* domain's steamLoginSecure cookie as the jar holds it after the request,
\* nothing when the jar has none.
C16_RefreshTouchesOnlyCookies ==
    call.op = "refresh" =>
        /\ is_logged = logged_before
        /\ <<refresh_token, access_token>> = tokens_before
        /\ call.outcome = "returned" =>
              IF jar.steamLoginSecure = NoCookie \/ jar.steamLoginSecure = <<"">>
              THEN call.returned = None
              ELSE /\ Len(jar.steamLoginSecure) >= 2
                   /\ call.returned = jar.steamLoginSecure[2]

\* C16 witness: a logged-in session refreshed and got a token that is not the
\* stored access-token field
C16_Witness ==
    /\ call.op = "refresh"
    /\ call.outcome = "returned"
    /\ call.returned = "t2"
    /\ is_logged
    /\ access_token = "a1"

\* C17: after a login() that returned, the jar holds a sessionid cookie for
\* the community domain.
C17_SessionIdAfterLogin ==
    outcome = "returned" => SessionId(jar) # NoCookie

\* the description-bearing fragments the last call's response served: the
\* assets of a listings response, the descriptions of a trade response
ServedFragments ==
    IF t_op = "listings" /\ Has(t_resp, "assets") THEN t_resp.assets
    ELSE IF t_op \in {"history", "receipt"} /\ Has(t_resp, "response")
    THEN t_resp.response.descriptions
    ELSE <<>>

\* the first fragment of the list that has the key
FirstWithKey(fragments, key) ==
    fragments[CHOOSE i \in DOMAIN fragments :
                /\ DescrKey(fragments[i]) = key
                /\ \A j \in 1..(i - 1) : DescrKey(fragments[j]) # key]

\* the cache of the call holds, for each key, the description built from the
\* first fragment of the response that has the key
FirstEncounterCached ==
    \A key \in DOMAIN call_descrs_map :
        call_descrs_map[key] =
            CreateItemDescriptionKwargs(FirstWithKey(ServedFragments, key),
                                        <<FirstWithKey(ServedFragments, key)>>)

\* C21: within one resolution pass, at each call site (inventory, market
\* listings, trade history), the description cached for a key is the one
\* built at the first encounter of the key and no later fragment with the
\* same key replaces it.  Stated for the market listings and the trade
\* history and receipt; the inventory's cache is that of C4 and C5.
C21_FirstEncounterKept ==
    t_op \in {"listings", "history", "receipt"} => FirstEncounterCached

\* the cache a call builds from its own response and nothing else
CacheOfResponse ==
    IF t_op = "listings" THEN UpdateItemDescrsMapForPublic(ServedFragments, <<>>)
    ELSE UpdateItemDescrsMapForTrades(ServedFragments, <<>>)

\* the asset fragments of the trades the last call had to resolve
TradeAssetsToResolve ==
    IF ~Has(t_resp, "response") THEN {}
    ELSE LET trades == t_resp.response.trades
             considered == IF t_op = "receipt"
                           THEN (IF trades = <<>> THEN {} ELSE {1})
                           ELSE DOMAIN trades
         IN  UNION { { AssetsOf(trades[i], name)[j] :
                         j \in DOMAIN AssetsOf(trades[i], name) } :
                     i \in considered, name \in {"assets_given", "assets_received"} }

\* the items of a returned trade history or trade receipt
ReturnedTradeItems ==
    LET offers == IF t_op = "receipt" THEN <<t_result>> ELSE t_result[1]
    IN  UNION { { offers[i][name][j] : j \in DOMAIN offers[i][name] } :
                i \in DOMAIN offers, name \in {"assets_given", "assets_received"} }

C23_ForbiddenIsItsOwnKind ==
    (inv_outcome = "raised" /\ inv_failure = [status |-> 403])
        => inv_error = "SteamForbiddenError"

\* C24: get_inventory raises SessionExpired exactly when the fetch it awaited
\* was denied with HTTP 403, lets every other failure through as it is, and
\* on success returns what get_user_inventory returned.
C24_SessionExpiredIff403 ==
    inventory.outcome # "none" =>
        /\ (inventory.error = "SessionExpired") <=> (inv_failure = [status |-> 403])
        /\ (inv_outcome = "raised" /\ inv_failure # [status |-> 403]) =>
              /\ inventory.outcome = "raised"
              /\ inventory.error = inv_error
              /\ inventory.exc = inv_exc
        /\ inv_outcome = "returned" =>
              /\ inventory.outcome = "returned"
              /\ inventory.result = result

\* get_inventory has raised SessionExpired on a second page answered with 403
C24_Witness ==
    /\ inventory.outcome = "raised"
    /\ inventory.error = "SessionExpired"
    /\ Len(fetches) = 2

\* the login() calls started since the restore_from_cookies called last began
LoginsOfRestore == attempts - call.attempts

\* C25: restore_from_cookies returns True exactly when the liveness probe
\* succeeds, and then has started no login; when the probe fails it runs
\* login(init_session=False) once and, that login returned, returns False; a
\* failure of that login is the failure of restore_from_cookies.
C25_RestoreFollowsProbe ==
    call.op = "restore" =>
        /\ (call.outcome = "returned" /\ call.returned = "True") <=> call.probe = "alive"
        /\ call.probe = "alive" => LoginsOfRestore = 0
        /\ call.probe = "dead" =>
              /\ LoginsOfRestore = 1
              /\ RequestsOfKind("init") = {}
              /\ (call.outcome = "returned") <=> (outcome = "returned")
              /\ call.outcome = "returned" => call.returned = "False" /\ is_logged
              /\ outcome = "raised" => call.outcome = "login" /\ pc = "idle"

\* restore_from_cookies has returned False after the login it ran returned
C25_Witness ==
    /\ call.op = "restore"
    /\ call.probe = "dead"
    /\ call.outcome = "returned"
    /\ call.returned = "False"
    /\ outcome = "returned"

\* the transfer requests of the current login() that went to the URL
TransfersTo(url) == { k \in TransferRequests : sent[k].data.url = url }

NamesNextPage(rj) ==
    /\ Has(rj, "response")
    /\ Has(rj.response, "next_cursor")
    /\ rj.response.next_cursor # 0

\* the offers of the named list of the responses, concatenated in fetch order
RECURSIVE OffersInFetchOrder(_, _)
OffersInFetchOrder(responses, name) ==
    IF responses = <<>> THEN <<>>
    ELSE (IF Has(Head(responses).response, name)
          THEN Head(responses).response[name] ELSE <<>>)
         \o OffersInFetchOrder(Tail(responses), name)

\* C27: the first request of fetch_trade_offers carries cursor 0 and each
\* following request the next_cursor of the response before it; the loop
\* stops at the first response whose next_cursor is zero or absent, and the
\* call returns the sent and the received offers of all responses,
\* concatenated in fetch order.
C27_CursorChain ==
    t_op = "offers" =>
        /\ Len(tr_pages) = Len(cursors)
        /\ \A k \in DOMAIN cursors :
              /\ k = 1 => cursors[k] = 0
              /\ k > 1 => /\ NamesNextPage(tr_pages[k - 1])
                          /\ cursors[k] = tr_pages[k - 1].response.next_cursor
        /\ (tr_pages # <<>> /\ ~NamesNextPage(tr_pages[Len(tr_pages)])) =>
              /\ tr_pc = "idle"
              /\ t_outcome = IF Has(tr_pages[Len(tr_pages)], "response")
                             THEN "returned" ELSE "raised"
        /\ (tr_pages # <<>> /\ NamesNextPage(tr_pages[Len(tr_pages)])) =>
              tr_pc = "loop" /\ t_outcome = "running"
        /\ t_outcome = "returned" =>
              t_result = [sent |-> OffersInFetchOrder(tr_pages, "trade_offers_sent"),
                          received |-> OffersInFetchOrder(tr_pages, "trade_offers_received")]

\* a call that returned after three requests, the offers of its three
\* responses in its result
C27_Witness ==
    /\ t_op = "offers"
    /\ t_outcome = "returned"
    /\ cursors = <<0, 5, 9>>
    /\ t_result.received = <<"r1", "r2", "r3", "r1">>
    /\ Len(t_result.sent) = 2

\* C28: a failed page fetch (a response without the success indicator, or a
\* transport error) is neither retried nor swallowed: the pass issues no
\* further request, returns no partial list, and raises an error that carries
\* the raw response of the failing page.
C28_FailureCarriesResponse ==
    inv_failure # NoFailure =>
        /\ inv_pc = "done"
        /\ inv_outcome = "raised"
        /\ result = <<>>
        /\ Len(fetches) = Len(pages) + 1
        /\ inv_exc.resp = inv_failure

\* C29: get_access_token returns nothing when the jar holds no secure cookie
\* for the domain and otherwise the token part of the cookie's value; whatever
\* the jar holds, it does not raise.
C29_AccessTokenNeverRaises ==
    /\ AccessTokenRaises(jar) = "none"
    /\ call.op = "refresh" => call.error # "IndexError"
    /\ GetCookieValueFromSession(jar, "steamLoginSecure") = NoCookie
          => GetAccessToken(jar) = None

\* the requests of login() itself: the log without the GET that may precede
\* them (the session's initiation, or the probe of restore_from_cookies)
LoginRequests ==
    IF sent # <<>> /\ sent[1].kind \in {"init", "probe"} THEN Tail(sent) ELSE sent

\* the steps of login() before the transfers, in the order of lines 115-118
StepOrder == <<"rsa_key", "begin_auth", "guard", "poll", "finalize">>

\* the poll response is one that _poll_auth_session_status accepts whole
PollSucceeded(rj) ==
    /\ Has(rj, "response")
    /\ Has(rj.response, "had_remote_interaction")
    /\ ~rj.response.had_remote_interaction
    /\ Has(rj.response, "refresh_token")
    /\ Has(rj.response, "access_token")

\* C30: within one login() the requests go out in the order public key,
\* credentials, guard code, poll, finalization, transfers; a step's request
\* goes out only after every earlier step has succeeded; and the tokens are
\* stored at the poll step and nowhere else.
C30_StepsInOrder ==
    outcome # "none" =>
        /\ \A k \in DOMAIN LoginRequests :
              LoginRequests[k].kind =
                  IF k <= Len(StepOrder) THEN StepOrder[k] ELSE "transfer"
        /\ RequestsOfKind("begin_auth") # {} => KeyWellFormed(key_resp)
        /\ RequestsOfKind("poll") # {} => guard_resp = "accepted"
        /\ RequestsOfKind("finalize") # {} => PollSucceeded(poll_resp)
        /\ RequestsOfKind("transfer") # {} => tasks # <<>>
        /\ poll_resp = NoPollResp =>
              <<refresh_token, access_token>> = tokens_before
        /\ (poll_resp # NoPollResp /\ PollSucceeded(poll_resp)) =>
              /\ refresh_token = poll_resp.response.refresh_token
              /\ access_token = poll_resp.response.access_token
        /\ (poll_resp # NoPollResp /\ ~PollSucceeded(poll_resp)) =>
              /\ access_token = tokens_before[2]
              /\ \/ refresh_token = tokens_before[1]
                 \/ /\ Has(poll_resp, "response")
                    /\ Has(poll_resp.response, "refresh_token")
                    /\ refresh_token = poll_resp.response.refresh_token

\* a login() that sent every step and three transfers, with the tokens of its
\* poll response stored
C30_Witness ==
    /\ outcome = "returned"
    /\ Len(LoginRequests) = Len(StepOrder) + MaxTransfers
    /\ refresh_token = "r2"
    /\ tokens_before = <<"r1", "a1">>

\* C31: whenever login() has failed, at whatever step, is_logged is false when
\* the call ends, even when the session was logged in before the call.
C31_FailedLoginNotLogged ==
    (pc = "idle" /\ outcome = "raised") => ~is_logged

\* C36: when login() has failed, the stored refresh token and access token are
\* those the session held before the call.
C36_FailedLoginKeepsTokens ==
    (pc = "idle" /\ outcome = "raised") =>
        <<refresh_token, access_token>> = tokens_before

\* C37: whenever restore_from_cookies has returned, with either value, the
\* client's is_logged flag is true.
C37_RestoredIsLogged ==
    (call.op = "restore" /\ call.outcome = "returned") => is_logged

\* the finalization response is one that lines 250-253 of login.py refuse
FinalizeRefused(rj) ==
    \/ Has(rj, "error")
    \/ ~Has(rj, "transfer_info")
    \/ rj.transfer_info = <<>>

\* C40: a login() that returned has dispatched at least one domain transfer;
\* a finalization response with an error field, or with a missing or empty
\* transfer_info, ends login() with LoginError, with no task created, no
\* transfer sent and is_logged as the call found it.
C40_LoggedOnlyAfterTransfer ==
    /\ outcome = "returned" => (tasks # <<>> /\ TransferRequests # {})
    /\ (fin_resp # NoFinResp /\ FinalizeRefused(fin_resp)) =>
          /\ outcome = "raised"
          /\ error = "LoginError"
          /\ tasks = <<>>
          /\ TransferRequests = {}
          /\ is_logged = logged_before

\* a login() that failed on a finalization response whose transfer_info is
\* empty
C40_Witness ==
    /\ Has(fin_resp, "transfer_info")
    /\ fin_resp.transfer_info = <<>>
    /\ error = "LoginError"
    /\ ~is_logged

\* the items built from assets of the class
ItemsOfClass(classid) ==
    { i \in DOMAIN items : origins[i].classid = classid }

\* C32: a description whose app id is no directly known game, first met on a
\* page none of whose assets has its class id, is cached with an absent game;
\* the pass raises only for a failed fetch or for an asset no fragment has
\* described; every item joined to the description has an absent game.
C32_OrphanHasNoGame ==
    \A c \in orphans :
        /\ c \in DOMAIN item_descrs_map
        /\ item_descrs_map[c].game = NoGame
        /\ \A i \in ItemsOfClass(c) : items[i].game = NoGame
        /\ inv_outcome = "raised" =>
              \/ inv_failure # NoFailure
              \/ inv_error = "KeyError" /\ unresolved # {}

\* a pass that returned an item joined to a description cached without game
C32_Witness ==
    /\ inv_outcome = "returned"
    /\ \E c \in orphans : \E i \in ItemsOfClass(c) :
          /\ items[i].game = NoGame
          /\ \E j \in DOMAIN result : result[j] = items[i]

\* the response of the decline request names the offer the call acted on
DeclineAccepted ==
    /\ o_call.resp.type = "dict"
    /\ Has(o_call.resp.dict, "tradeofferid")
    /\ DecVal(o_call.resp.dict.tradeofferid) = OfferIdOf(o_call.arg)

\* C33: decline_trade_offer given an incoming offer or an offer id sends one
\* decline request and, when the remote service accepts it, returns and has
\* called remove_trade_offer once for that offer; given one of the client's
\* own offers it raises ValueError with no request sent.
C33_DeclineRemovesOffer ==
    o_call.op = "decline" =>
        IF o_call.arg.type = "TradeOffer" /\ o_call.arg.offer.is_our_offer
        THEN /\ o_call.outcome = "raised"
             /\ o_call.error = "ValueError"
             /\ o_call.sent = <<>>
        ELSE /\ Len(o_call.sent) = 1
             /\ o_call.sent[1].kind = "decline"
             /\ DeclineAccepted =>
                   /\ o_call.outcome = "returned"
                   /\ Len(o_call.removed) = 1
                   /\ o_call.removed[1].offer_id = OfferIdOf(o_call.arg)
                   /\ OfferIdOf(o_call.arg) \notin DOMAIN offer_store

\* C34: get_or_fetch_trade_offer returns the stored offer with no request
\* when the offer is stored; when it is not, it sends one request and, when
\* it returns, the offer it returns is the one get_trade_offer then gives for
\* the same id.
C34_FetchedOfferIsStored ==
    o_call.op = "get_or_fetch" =>
        IF Truthy(o_call.cached)
        THEN /\ o_call.sent = <<>>
             /\ o_call.outcome = "returned"
             /\ PyEq(o_call.result, o_call.cached)
        ELSE /\ Len(o_call.sent) = 1
             /\ o_call.outcome = "returned" =>
                   PyEq(GetTradeOfferFrom(storage, offer_store, o_call.arg.int),
                        o_call.result)

\* C35: the clock offset is computed at most once: over any interleaving of
\* get_steam_time_async calls at most one time query sets the offset, no
\* query is sent once the aligner is aligned, and the offset of an aligned
\* aligner is never assigned again.
C35_OffsetSetOnce ==
    /\ Len(offset_sets) <= 1
    /\ \A k \in DOMAIN queries : ~queries[k].aligned
    /\ \A k \in DOMAIN offset_sets : ~offset_sets[k].aligned

\* C39: when link_steam_guard has failed, the client's shared secret is the
\* one it held before the call; when it has returned, the secret is that of
\* the add-authenticator response.
C39_FailedLinkKeepsSecret ==
    /\ link.outcome = "raised" => shared_secret = link.secret_before
    /\ link.outcome = "returned" =>
          shared_secret = Get(link.mafile_data, "shared_secret")

\* the refresh token the polls of the log left in the session
RECURSIVE StoredRefresh(_)
StoredRefresh(log) ==
    IF log = <<>> THEN None
    ELSE IF log[Len(log)].step = "poll" /\ log[Len(log)].refresh # None
    THEN log[Len(log)].refresh
    ELSE StoredRefresh(SubSeq(log, 1, Len(log) - 1))

\* the access token the polls of the log left in the session
RECURSIVE StoredAccess(_)
StoredAccess(log) ==
    IF log = <<>> THEN None
    ELSE IF log[Len(log)].step = "poll" /\ log[Len(log)].access # None
    THEN log[Len(log)].access
    ELSE StoredAccess(SubSeq(log, 1, Len(log) - 1))

Finalizations == { k \in DOMAIN re_log : re_log[k].step = "finalize" }

\* the poll of the attempt that sent the finalization logged at k
OwnPoll(k) ==
    CHOOSE j \in 1..(k - 1) :
        re_log[j].step = "poll" /\ re_log[j].attempt = re_log[k].attempt

BothEnded == \A a \in Attempts : att[a].pc \in {"returned", "raised"}

=============================================================================
